---- MODULE Spec2Model ----
(***************************************************************************)
(* A model of tortilla, a structure-preserving text wrapper.               *)
(*                                                                         *)
(* Strings are sequences of grapheme clusters; a grapheme is named by a    *)
(* short string ("sp" is ' ', "tab" is '\t', "lf" is '\n', "crlf" is the   *)
(* single grapheme '\r\n', "cr" is a lone '\r', every other name is a      *)
(* word grapheme).  An absent Option<&str> is the empty sequence: no       *)
(* word, comment or bullet the program handles is ever empty.              *)
(***************************************************************************)
EXTENDS Integers, Sequences, FiniteSets, TLC

VARIABLES
    lw,        \* the LineWrap under execution (wrap.rs, struct LineWrap)
    out,       \* fragments yielded so far by lw, each tagged with the arm that yielded it
    finished,  \* TRUE once LineWrap::next has returned None
    top,       \* the Toppings lw was built with
    lexer,     \* the Lexer under execution (lex.rs, struct Lexer)
    toks,      \* tokens returned so far by lexer
    parser,    \* the Parse under execution: its tokens and how many are consumed
    lines,     \* Lines returned so far by parser
    pipe,      \* a run of wrap() on an input string, and of wrap() on its output
    merger,    \* the Merge under execution: its Lines and how many are consumed
    merged,    \* Lines returned so far by merger
    cli,       \* a run of order() of the command line program (main.rs)
    arith,     \* the arithmetic of LineWrap::new and Sauce::prepare on machine words
    setter,    \* the last call that made the Toppings in top: its name, argument and receiver
    transformer, \* the Transformer under execution (transform.rs)
    transformed  \* tokens returned so far by transformer

wrapVars == <<lw, out, finished, top>>
lexVars == <<lexer, toks>>
parseVars == <<parser, lines>>
mergeVars == <<merger, merged>>
transformVars == <<transformer, transformed>>
otherVars == <<cli, arith, setter, transformVars>>
vars == <<wrapVars, lexVars, parseVars, pipe, mergeVars, otherVars>>

----------------------------------------------------------------------------
(* Bounds of the model *)

MaxWords == 3      \* words per merged line
MaxWidth == 6      \* largest toppings.width tried
MaxInput == 4      \* graphemes of an input string given to the lexer or the parser
MaxLines == 3      \* Lines given to the merger
MaxArgs == 3       \* command line arguments given to order()

----------------------------------------------------------------------------
(* Data model: lib.rs *)

NoWord == <<>>

SP == <<"sp">>
TAB == <<"tab">>

Space(n) == [kind |-> "Space", n |-> n]
Tab(n) == [kind |-> "Tab", n |-> n]

\* Newline::as_str
NewlineAsStr(nl) == IF nl = "LF" THEN <<"lf">> ELSE <<"crlf">>

\* Whitespace::count
Count(ws) == ws.n

\* Whitespace::as_str
WhitespaceAsStr(ws) == IF ws.kind = "Space" THEN SP ELSE TAB

Line(indent, comment, padding, bullet, words, newline) ==
    [indent |-> indent, comment |-> comment, padding |-> padding,
     bullet |-> bullet, words |-> words, newline |-> newline]

\* Toppings::default
DefaultToppings == [tabs |-> 4, width |-> 80, newline |-> "LF"]

\* Toppings::width
ToppingsWidth(self, width) == [self EXCEPT !.width = width]

\* mutant: the tabs setter starts from the default configuration
ToppingsTabs_FromDefault(self, tabs) == [tabs |-> tabs, width |-> 80, newline |-> "LF"]

\* Toppings::tabs
ToppingsTabs(self, tabs) == [self EXCEPT !.tabs = tabs]

\* Toppings::newline
ToppingsNewline(self, newline) == [self EXCEPT !.newline = newline]

----------------------------------------------------------------------------
(* Display width: unicode_width::UnicodeWidthStr::width_cjk, on the        *)
(* graphemes the model uses.                                               *)

GraphemeWidth(g) ==
    CASE g = "W" -> 2          \* a full-width CJK character
      [] g = "bul" -> 2        \* U+2022 BULLET, East Asian Ambiguous: 2 in the CJK variant
      [] g = "z" -> 0          \* U+200B ZERO WIDTH SPACE
      [] OTHER -> 1

RECURSIVE WidthCjk(_)
WidthCjk(w) == IF w = <<>> THEN 0 ELSE GraphemeWidth(Head(w)) + WidthCjk(Tail(w))

SatSub(a, b) == IF a >= b THEN a - b ELSE 0

----------------------------------------------------------------------------
(* Line breaking strategies: wrap.rs, trait Sauce *)

\* Guacamole::prepare
GuacamolePrepare(words, max) ==
    [kind |-> "Guacamole", max |-> max, width |-> 0, breaks |-> {}]

\* mutant: the threshold leaves one column free, so an exact fit breaks
GuacamoleShouldBreak_ExactBreaks(s, words, idx) ==
    LET width == WidthCjk(words[idx + 1]) IN
    IF s.width = 0
    THEN [brk |-> TRUE, sauce |-> [s EXCEPT !.width = width]]
    ELSE IF s.width + width + 1 < s.max
         THEN [brk |-> FALSE, sauce |-> [s EXCEPT !.width = s.width + width + 1]]
         ELSE [brk |-> TRUE, sauce |-> [s EXCEPT !.width = width]]

\* mutant: the threshold compares with <= instead of <
GuacamoleShouldBreak_Le(s, words, idx) ==
    LET width == WidthCjk(words[idx + 1]) IN
    IF s.width = 0
    THEN [brk |-> TRUE, sauce |-> [s EXCEPT !.width = width]]
    ELSE IF s.width + width <= s.max
         THEN [brk |-> FALSE, sauce |-> [s EXCEPT !.width = s.width + width + 1]]
         ELSE [brk |-> TRUE, sauce |-> [s EXCEPT !.width = width]]

\* mutant: a budget of 0 is taken as no budget at all
GuacamoleShouldBreak_ZeroUnlimited(s, words, idx) ==
    LET width == WidthCjk(words[idx + 1]) IN
    IF s.width = 0
    THEN [brk |-> TRUE, sauce |-> [s EXCEPT !.width = width]]
    ELSE IF s.max = 0 \/ s.width + width < s.max
         THEN [brk |-> FALSE, sauce |-> [s EXCEPT !.width = s.width + width + 1]]
         ELSE [brk |-> TRUE, sauce |-> [s EXCEPT !.width = width]]

\* Guacamole::should_break: the answer and the updated strategy state
GuacamoleShouldBreak(s, words, idx) ==
    LET width == WidthCjk(words[idx + 1]) IN
    IF s.width = 0
    THEN [brk |-> TRUE, sauce |-> [s EXCEPT !.width = width]]
    ELSE IF s.width + width < s.max
         THEN [brk |-> FALSE, sauce |-> [s EXCEPT !.width = s.width + width + 1]]
         ELSE [brk |-> TRUE, sauce |-> [s EXCEPT !.width = width]]

UsizeMax == 2147483647

\* offsets[idx + 1] = offsets[idx] + word.width_cjk()
RECURSIVE SalsaOffsets(_, _)
SalsaOffsets(words, k) ==
    IF k = 0 THEN 0 ELSE SalsaOffsets(words, k - 1) + WidthCjk(words[k])

\* mutant: the inner loop never stops at a line that overflows
RECURSIVE SalsaInner_NoOverflowStop(_, _, _, _, _)
SalsaInner_NoOverflowStop(words, max, minimas, start, end) ==
    LET n == Len(words) IN
    IF end > n THEN minimas
    ELSE
      LET line_length == SalsaOffsets(words, end) - SalsaOffsets(words, start)
                           + end - start - 1
          penalty == IF end # n
                     THEN SatSub(max, line_length) * SatSub(max, line_length)
                     ELSE 0
          cost == minimas[start][2] + penalty
          updated == IF cost < minimas[end][2]
                     THEN [minimas EXCEPT ![end] = <<start, cost>>]
                     ELSE minimas
      IN SalsaInner_NoOverflowStop(words, max, updated, start, end + 1)

\* mutant: the penalty of a line is its slack, not the square of it
RECURSIVE SalsaInner_LinearPenalty(_, _, _, _, _)
SalsaInner_LinearPenalty(words, max, minimas, start, end) ==
    LET n == Len(words) IN
    IF end > n THEN minimas
    ELSE
      LET line_length == SalsaOffsets(words, end) - SalsaOffsets(words, start)
                           + end - start - 1
      IN
      IF line_length > max /\ end # start + 1 THEN minimas
      ELSE
        LET penalty == IF end # n THEN SatSub(max, line_length) ELSE 0
            cost == minimas[start][2] + penalty
            updated == IF cost < minimas[end][2]
                       THEN [minimas EXCEPT ![end] = <<start, cost>>]
                       ELSE minimas
        IN SalsaInner_LinearPenalty(words, max, updated, start, end + 1)

\* the inner loop of Salsa::prepare, from end_node_idx on
RECURSIVE SalsaInner(_, _, _, _, _)
SalsaInner(words, max, minimas, start, end) ==
    LET n == Len(words) IN
    IF end > n THEN minimas
    ELSE
      LET line_length == SalsaOffsets(words, end) - SalsaOffsets(words, start)
                           + end - start - 1
      IN
      IF line_length > max /\ end # start + 1 THEN minimas
      ELSE
        LET penalty == IF end # n
                       THEN SatSub(max, line_length) * SatSub(max, line_length)
                       ELSE 0
            cost == minimas[start][2] + penalty
            updated == IF cost < minimas[end][2]
                       THEN [minimas EXCEPT ![end] = <<start, cost>>]
                       ELSE minimas
        IN SalsaInner(words, max, updated, start, end + 1)

\* the outer loop of Salsa::prepare, from start_node_idx on
RECURSIVE SalsaOuter(_, _, _, _)
SalsaOuter(words, max, minimas, start) ==
    IF start >= Len(words) THEN minimas
    ELSE SalsaOuter(words, max,
                    SalsaInner(words, max, minimas, start, start + 1), start + 1)

SalsaMinimas(words, max) ==
    SalsaOuter(words, max,
               [i \in 0..Len(words) |-> IF i = 0 THEN <<0, 0>> ELSE <<0, UsizeMax>>], 0)

\* successors(Some(words.len()), ..).skip(1), collected into a set
RECURSIVE SalsaBacktrack(_, _)
SalsaBacktrack(minimas, idx) ==
    IF idx = 0 THEN {}
    ELSE {minimas[idx][1]} \cup SalsaBacktrack(minimas, minimas[idx][1])

\* Salsa::prepare
SalsaPrepare(words, max) ==
    [kind |-> "Salsa", max |-> 0, width |-> 0,
     breaks |-> SalsaBacktrack(SalsaMinimas(words, max), Len(words))]

\* Salsa::should_break
SalsaShouldBreak(s, words, idx) == [brk |-> idx \in s.breaks, sauce |-> s]

Sauces == {"Guacamole", "Salsa"}

Prepare(S, words, max) ==
    IF S = "Guacamole" THEN GuacamolePrepare(words, max) ELSE SalsaPrepare(words, max)

ShouldBreak(s, words, idx) ==
    IF s.kind = "Guacamole" THEN GuacamoleShouldBreak(s, words, idx)
    ELSE SalsaShouldBreak(s, words, idx)

----------------------------------------------------------------------------
(* Tokens: lib.rs, enum Token.  One record shape for the four variants.    *)

TSpace == [k |-> "Space", nl |-> "-", w |-> <<>>]
TTab == [k |-> "Tab", nl |-> "-", w |-> <<>>]
TNewline(kind) == [k |-> "Newline", nl |-> kind, w |-> <<>>]
TWord(w) == [k |-> "Word", nl |-> "-", w |-> w]
NoToken == [k |-> "None", nl |-> "-", w |-> <<>>]

----------------------------------------------------------------------------
(* Lexer: lex.rs (the iterator) with the newline kinds of lexer.rs.        *)
(* Positions count graphemes: idx graphemes of input are consumed, and a   *)
(* word that began at grapheme start is input[start .. idx - 1].           *)

\* mutant: both newline graphemes give the same token
WordBreak_OneNewline(g) ==
    CASE g = "sp" -> TSpace
      [] g = "tab" -> TTab
      [] g = "lf" -> TNewline("LF")
      [] g = "crlf" -> TNewline("LF")
      [] OTHER -> NoToken

\* mutant: a carriage return is a line break of its own
WordBreak_CarriageReturn(g) ==
    CASE g = "sp" -> TSpace
      [] g = "tab" -> TTab
      [] g = "lf" -> TNewline("LF")
      [] g = "crlf" -> TNewline("CRLF")
      [] g = "cr" -> TNewline("LF")
      [] OTHER -> NoToken

\* word_break
WordBreak(g) ==
    CASE g = "sp" -> TSpace
      [] g = "tab" -> TTab
      [] g = "lf" -> TNewline("LF")
      [] g = "crlf" -> TNewline("CRLF")
      [] OTHER -> NoToken

\* lex (lex.rs), Lex::new
LexerNew(input) ==
    [input |-> input, idx |-> 0, state |-> "Clean", start |-> 0, pending |-> NoToken]

Returned(lx, tok) == [lexer |-> lx, tok |-> tok]

\* mutant: the separator that ends a word is returned before the word
RECURSIVE LexerScan_SeparatorFirst(_)
LexerScan_SeparatorFirst(lx) ==
    IF lx.idx < Len(lx.input)
    THEN LET byte_idx == lx.idx + 1
             token == WordBreak(lx.input[byte_idx])
             l1 == [lx EXCEPT !.idx = byte_idx]
         IN IF lx.state = "Clean"
            THEN IF token # NoToken THEN Returned(l1, token)
                 ELSE LexerScan_SeparatorFirst([l1 EXCEPT !.state = "Word", !.start = byte_idx])
            ELSE IF token # NoToken
                 THEN Returned([l1 EXCEPT !.state = "Clean",
                                          !.pending = TWord(SubSeq(lx.input, lx.start, byte_idx - 1))],
                               token)
                 ELSE LexerScan_SeparatorFirst(l1)
    ELSE IF lx.state = "Word"
         THEN Returned([lx EXCEPT !.state = "Clean"],
                       TWord(SubSeq(lx.input, lx.start, Len(lx.input))))
         ELSE Returned(lx, NoToken)

\* the while loop of Lexer::next and what follows it
RECURSIVE LexerScan(_)
LexerScan(lx) ==
    IF lx.idx < Len(lx.input)
    THEN LET byte_idx == lx.idx + 1
             token == WordBreak(lx.input[byte_idx])
             l1 == [lx EXCEPT !.idx = byte_idx]
         IN IF lx.state = "Clean"
            THEN IF token # NoToken THEN Returned(l1, token)
                 ELSE LexerScan([l1 EXCEPT !.state = "Word", !.start = byte_idx])
            ELSE IF token # NoToken
                 THEN Returned([l1 EXCEPT !.state = "Clean", !.pending = token],
                               TWord(SubSeq(lx.input, lx.start, byte_idx - 1)))
                 ELSE LexerScan(l1)
    ELSE IF lx.state = "Word"
         THEN Returned([lx EXCEPT !.state = "Clean"],
                       TWord(SubSeq(lx.input, lx.start, Len(lx.input))))
         ELSE Returned(lx, NoToken)

\* Lexer::next
LexerNext(lx) ==
    IF lx.pending # NoToken THEN Returned([lx EXCEPT !.pending = NoToken], lx.pending)
    ELSE LexerScan(lx)

\* every token of the iterator, up to the first None
RECURSIVE LexerCollect(_)
LexerCollect(lx) ==
    LET r == LexerNext(lx) IN
    IF r.tok = NoToken THEN <<>> ELSE <<r.tok>> \o LexerCollect(r.lexer)

\* lex (lexer.rs): the same machine, pushing into a vector
RECURSIVE LexLoop(_, _, _, _)
LexLoop(input, at, state, tokens) ==
    IF at > Len(input)
    THEN IF state[1] = "Word"
         THEN Append(tokens, TWord(SubSeq(input, state[2], Len(input))))
         ELSE tokens
    ELSE LET token == WordBreak(input[at]) IN
         IF state[1] = "Clean"
         THEN IF token # NoToken
              THEN LexLoop(input, at + 1, state, Append(tokens, token))
              ELSE LexLoop(input, at + 1, <<"Word", at>>, tokens)
         ELSE IF token # NoToken
              THEN LexLoop(input, at + 1, <<"Clean", 0>>,
                           tokens \o <<TWord(SubSeq(input, state[2], at - 1)), token>>)
              ELSE LexLoop(input, at + 1, state, tokens)

Lex(input) == LexLoop(input, 1, <<"Clean", 0>>, <<>>)

----------------------------------------------------------------------------
(* Parser: parse.rs.  pos tokens of the stream are consumed; peek is the   *)
(* token at pos + 1.                                                       *)

ParseNew(tokens) == [tokens |-> tokens, pos |-> 0]

\* Peekable::peek
Peek(p) == IF p.pos < Len(p.tokens) THEN p.tokens[p.pos + 1] ELSE NoToken

Advance(p) == [p EXCEPT !.pos = p.pos + 1]

\* the while loop of Parse::whitespace: the tokens equal to first
RECURSIVE CountSame(_, _, _)
CountSame(p, first, count) ==
    IF Peek(p) = first THEN CountSame(Advance(p), first, count + 1)
    ELSE [parser |-> p, count |-> count]

\* mutant: a run of whitespace is counted whatever its kinds
RECURSIVE CountAny(_, _)
CountAny(p, count) ==
    IF Peek(p) = TSpace \/ Peek(p) = TTab THEN CountAny(Advance(p), count + 1)
    ELSE [parser |-> p, count |-> count]

Whitespace_Mixed(p) ==
    IF Peek(p) = TSpace \/ Peek(p) = TTab
    THEN LET r == CountAny(Advance(p), 1) IN
         [parser |-> r.parser,
          val |-> IF Peek(p) = TSpace THEN Space(r.count) ELSE Tab(r.count)]
    ELSE [parser |-> p, val |-> Space(0)]

\* mutant: the slot takes the first whitespace token only
Whitespace_First(p) ==
    IF Peek(p) = TSpace \/ Peek(p) = TTab
    THEN [parser |-> Advance(p),
          val |-> IF Peek(p) = TSpace THEN Space(1) ELSE Tab(1)]
    ELSE [parser |-> p, val |-> Space(0)]

\* Parse::whitespace
Whitespace(p) ==
    IF Peek(p) = TSpace \/ Peek(p) = TTab
    THEN LET r == CountSame(Advance(p), Peek(p), 1) IN
         [parser |-> r.parser,
          val |-> IF Peek(p) = TSpace THEN Space(r.count) ELSE Tab(r.count)]
    ELSE [parser |-> p, val |-> Space(0)]

COMMENT_TOKENS ==
    {<<"#">>, <<">">>, <<";">>, <<"/", "/">>, <<"-", "-">>, <<";", ";">>,
     <<"/", "/", "/">>, <<"/", "/", "!">>}

\* Parse::comment
Comment(p) ==
    IF Peek(p).k = "Word" /\ Peek(p).w \in COMMENT_TOKENS
    THEN [parser |-> Advance(p), val |-> Peek(p).w]
    ELSE [parser |-> p, val |-> NoWord]

AsciiDigits == {"0", "1", "2", "3", "4", "5", "6", "7", "8", "9"}

\* mutant: the test without word.len() > 1
IsBullet_AnyLength(word) ==
    \/ word \in {<<"-">>, <<"*">>, <<"bul">>}
    \/ /\ word[Len(word)] \in {".", ")"}
       /\ \A i \in 1..(Len(word) - 1) : word[i] \in AsciiDigits

\* the test is_bullet of Parse::bullet
IsBullet(word) ==
    \/ word \in {<<"-">>, <<"*">>, <<"bul">>}
    \/ /\ word[Len(word)] \in {".", ")"}
       /\ Len(word) > 1
       /\ \A i \in 1..(Len(word) - 1) : word[i] \in AsciiDigits

\* Parse::bullet
Bullet(p) ==
    IF Peek(p).k = "Word" /\ IsBullet(Peek(p).w)
    THEN [parser |-> Advance(p), val |-> Peek(p).w]
    ELSE [parser |-> p, val |-> NoWord]

\* mutant: a Newline met before any word is skipped like whitespace
RECURSIVE Words_SkipBlank(_, _)
Words_SkipBlank(p, words) ==
    LET token == Peek(p) IN
    CASE token = NoToken -> [parser |-> p, words |-> words, newline |-> FALSE]
      [] token.k = "Newline" /\ words # <<>> ->
           [parser |-> Advance(p), words |-> words, newline |-> TRUE]
      [] token.k = "Word" -> Words_SkipBlank(Advance(p), Append(words, token.w))
      [] OTHER -> Words_SkipBlank(Advance(p), words)

\* Parse::words
RECURSIVE Words(_, _)
Words(p, words) ==
    LET token == Peek(p) IN
    CASE token = NoToken -> [parser |-> p, words |-> words, newline |-> FALSE]
      [] token.k = "Newline" -> [parser |-> Advance(p), words |-> words, newline |-> TRUE]
      [] token.k = "Word" -> Words(Advance(p), Append(words, token.w))
      [] OTHER -> Words(Advance(p), words)

\* Parse::next, when a token is left
ParseLine(p) ==
    LET indent == Whitespace(p)
        comment == Comment(indent.parser)
        padding == Whitespace(comment.parser)
        bullet == Bullet(padding.parser)
        words == Words(bullet.parser, <<>>)
    IN [parser |-> words.parser,
        line |-> Line(indent.val, comment.val, padding.val, bullet.val,
                      words.words, words.newline)]

\* every Line of the iterator
RECURSIVE ParseCollect(_)
ParseCollect(p) ==
    IF Peek(p) = NoToken THEN <<>>
    ELSE LET r == ParseLine(p) IN <<r.line>> \o ParseCollect(r.parser)

----------------------------------------------------------------------------
(* LineWrap: wrap.rs *)

\* the closure whitespace_width of LineWrap::new
WhitespaceWidth(ws, toppings) ==
    IF ws.kind = "Space" THEN ws.n ELSE toppings.tabs * ws.n

BulletWidth(line) == IF line.bullet # NoWord THEN WidthCjk(line.bullet) + 1 ELSE 0

UnbreakableWidth(line, toppings) ==
    WhitespaceWidth(line.indent, toppings)
      + (IF line.comment # NoWord THEN WidthCjk(line.comment) ELSE 0)
      + WhitespaceWidth(line.padding, toppings)
      + BulletWidth(line)

BreakableWidth(line, toppings) == SatSub(toppings.width, UnbreakableWidth(line, toppings))

\* mutant: the LineWrap writes the default newline, not the configured one
LineWrapNew_DefaultNewline(line, toppings, S) ==
    [line |-> line,
     sauce |-> Prepare(S, line.words, BreakableWidth(line, toppings)),
     state |-> IF line.words = <<>> THEN "Indent" ELSE "Words",
     newline |-> DefaultToppings.newline,
     pending |-> NoWord,
     word_idx |-> 0,
     whitespace_idx |-> 0,
     bullet_width |-> BulletWidth(line)]

\* mutant: every LineWrap starts in Words
LineWrapNew_StartWords(line, toppings, S) ==
    [line |-> line,
     sauce |-> Prepare(S, line.words, BreakableWidth(line, toppings)),
     state |-> "Words",
     newline |-> toppings.newline,
     pending |-> NoWord,
     word_idx |-> 0,
     whitespace_idx |-> 0,
     bullet_width |-> BulletWidth(line)]

\* LineWrap::new
LineWrapNew(line, toppings, S) ==
    [line |-> line,
     sauce |-> Prepare(S, line.words, BreakableWidth(line, toppings)),
     state |-> IF line.words = <<>> THEN "Indent" ELSE "Words",
     newline |-> toppings.newline,
     pending |-> NoWord,
     word_idx |-> 0,
     whitespace_idx |-> 0,
     bullet_width |-> BulletWidth(line)]

(* One iteration of the loop of LineWrap::next.  The result is the updated *)
(* LineWrap and what the iteration does: "continue" (loop again), "none"   *)
(* (break None) or "some" (break Some(s)); arm names the match arm and     *)
(* branch that yielded s.                                                  *)
Continue(l) == [lw |-> l, ret |-> "continue", s |-> NoWord, arm |-> "-"]
BreakNone(l) == [lw |-> l, ret |-> "none", s |-> NoWord, arm |-> "-"]
BreakSome(l, s, arm) == [lw |-> l, ret |-> "some", s |-> s, arm |-> arm]

\* mutant: a word that starts a new output line is not queued
StepWords_DropBroken(l) ==
    IF l.pending # NoWord
    THEN BreakSome([l EXCEPT !.pending = NoWord], l.pending, "word")
    ELSE IF l.word_idx >= Len(l.line.words)
    THEN IF l.line.newline
         THEN BreakSome([l EXCEPT !.state = "Final"], NewlineAsStr(l.newline), "final")
         ELSE BreakNone([l EXCEPT !.state = "Final"])
    ELSE
      LET sb == ShouldBreak(l.sauce, l.line.words, l.word_idx)
          l1 == [l EXCEPT !.sauce = sb.sauce,
                          !.word_idx = l.word_idx + 1,
                          !.pending = l.line.words[l.word_idx + 1]]
      IN
      IF l1.word_idx = 1 THEN Continue([l1 EXCEPT !.state = "Indent"])
      ELSE IF sb.brk
           THEN BreakSome([l1 EXCEPT !.state = "Indent", !.pending = NoWord],
                          NewlineAsStr(l.newline), "break")
           ELSE BreakSome([l1 EXCEPT !.state = "Words"], SP, "space")

\* mutant: should_break is not asked for the first word, whose answer is
\* not used
StepWords_SkipFirstCall(l) ==
    IF l.pending # NoWord
    THEN BreakSome([l EXCEPT !.pending = NoWord], l.pending, "word")
    ELSE IF l.word_idx >= Len(l.line.words)
    THEN IF l.line.newline
         THEN BreakSome([l EXCEPT !.state = "Final"], NewlineAsStr(l.newline), "final")
         ELSE BreakNone([l EXCEPT !.state = "Final"])
    ELSE IF l.word_idx = 0
    THEN Continue([l EXCEPT !.word_idx = 1, !.pending = l.line.words[1], !.state = "Indent"])
    ELSE
      LET sb == ShouldBreak(l.sauce, l.line.words, l.word_idx)
          l1 == [l EXCEPT !.sauce = sb.sauce,
                          !.word_idx = l.word_idx + 1,
                          !.pending = l.line.words[l.word_idx + 1]]
      IN
      IF sb.brk
      THEN BreakSome([l1 EXCEPT !.state = "Indent"], NewlineAsStr(l.newline), "break")
      ELSE BreakSome([l1 EXCEPT !.state = "Words"], SP, "space")

\* mutant: the first word is treated like every other word
StepWords_FirstBreaks(l) ==
    IF l.pending # NoWord
    THEN BreakSome([l EXCEPT !.pending = NoWord], l.pending, "word")
    ELSE IF l.word_idx >= Len(l.line.words)
    THEN IF l.line.newline
         THEN BreakSome([l EXCEPT !.state = "Final"], NewlineAsStr(l.newline), "final")
         ELSE BreakNone([l EXCEPT !.state = "Final"])
    ELSE
      LET sb == ShouldBreak(l.sauce, l.line.words, l.word_idx)
          l1 == [l EXCEPT !.sauce = sb.sauce,
                          !.word_idx = l.word_idx + 1,
                          !.pending = l.line.words[l.word_idx + 1]]
      IN
      IF sb.brk
      THEN BreakSome([l1 EXCEPT !.state = "Indent"], NewlineAsStr(l.newline), "break")
      ELSE BreakSome([l1 EXCEPT !.state = "Words"], SP, "space")

\* mutant: a word that fits is queued without a space before it
StepWords_NoSpace(l) ==
    IF l.pending # NoWord
    THEN BreakSome([l EXCEPT !.pending = NoWord], l.pending, "word")
    ELSE IF l.word_idx >= Len(l.line.words)
    THEN IF l.line.newline
         THEN BreakSome([l EXCEPT !.state = "Final"], NewlineAsStr(l.newline), "final")
         ELSE BreakNone([l EXCEPT !.state = "Final"])
    ELSE
      LET sb == ShouldBreak(l.sauce, l.line.words, l.word_idx)
          l1 == [l EXCEPT !.sauce = sb.sauce,
                          !.word_idx = l.word_idx + 1,
                          !.pending = l.line.words[l.word_idx + 1]]
      IN
      IF l1.word_idx = 1 THEN Continue([l1 EXCEPT !.state = "Indent"])
      ELSE IF sb.brk
           THEN BreakSome([l1 EXCEPT !.state = "Indent"], NewlineAsStr(l.newline), "break")
           ELSE Continue([l1 EXCEPT !.state = "Words"])

StepWords(l) ==
    IF l.pending # NoWord
    THEN BreakSome([l EXCEPT !.pending = NoWord], l.pending, "word")
    ELSE IF l.word_idx >= Len(l.line.words)
    THEN IF l.line.newline
         THEN BreakSome([l EXCEPT !.state = "Final"], NewlineAsStr(l.newline), "final")
         ELSE BreakNone([l EXCEPT !.state = "Final"])
    ELSE
      LET sb == ShouldBreak(l.sauce, l.line.words, l.word_idx)
          l1 == [l EXCEPT !.sauce = sb.sauce,
                          !.word_idx = l.word_idx + 1,
                          !.pending = l.line.words[l.word_idx + 1]]
      IN
      IF l1.word_idx = 1 THEN Continue([l1 EXCEPT !.state = "Indent"])
      ELSE IF sb.brk
           THEN BreakSome([l1 EXCEPT !.state = "Indent"], NewlineAsStr(l.newline), "break")
           ELSE BreakSome([l1 EXCEPT !.state = "Words"], SP, "space")

StepIndent(l) ==
    IF l.whitespace_idx = Count(l.line.indent)
    THEN Continue([l EXCEPT !.whitespace_idx = 0, !.state = "Comment"])
    ELSE BreakSome([l EXCEPT !.whitespace_idx = l.whitespace_idx + 1],
                   WhitespaceAsStr(l.line.indent), "indent")

\* mutant: the comment token is written on the first output line only
StepComment_FirstLineOnly(l) ==
    IF l.line.comment # NoWord /\ l.word_idx <= 1
    THEN BreakSome([l EXCEPT !.state = "Padding"], l.line.comment, "comment")
    ELSE Continue([l EXCEPT !.state = "Padding"])

StepComment(l) ==
    IF l.line.comment # NoWord
    THEN BreakSome([l EXCEPT !.state = "Padding"], l.line.comment, "comment")
    ELSE Continue([l EXCEPT !.state = "Padding"])

StepPadding(l) ==
    IF l.whitespace_idx = Count(l.line.padding)
    THEN Continue([l EXCEPT !.whitespace_idx = 0, !.state = "Bullet"])
    ELSE BreakSome([l EXCEPT !.whitespace_idx = l.whitespace_idx + 1],
                   WhitespaceAsStr(l.line.padding), "padding")

\* mutant: whitespace_idx is not seeded after the bullet of the first line
StepBullet_NoSeed(l) ==
    IF l.line.bullet = NoWord THEN Continue([l EXCEPT !.state = "Words"])
    ELSE IF l.pending = NoWord
    THEN BreakSome([l EXCEPT !.state = "Words"], l.line.bullet, "bullet")
    ELSE IF l.word_idx = 1
    THEN BreakSome([l EXCEPT !.state = "BulletSpace"], l.line.bullet, "bullet")
    ELSE Continue([l EXCEPT !.state = "BulletSpace"])

StepBullet(l) ==
    IF l.line.bullet = NoWord THEN Continue([l EXCEPT !.state = "Words"])
    ELSE IF l.pending = NoWord
    THEN BreakSome([l EXCEPT !.state = "Words"], l.line.bullet, "bullet")
    ELSE IF l.word_idx = 1
    THEN BreakSome([l EXCEPT !.state = "BulletSpace",
                             !.whitespace_idx = SatSub(l.bullet_width, 1)],
                   l.line.bullet, "bullet")
    ELSE Continue([l EXCEPT !.state = "BulletSpace"])

StepBulletSpace(l) ==
    IF l.whitespace_idx = l.bullet_width
    THEN Continue([l EXCEPT !.whitespace_idx = 0, !.state = "Words"])
    ELSE BreakSome([l EXCEPT !.whitespace_idx = l.whitespace_idx + 1], SP, "bulletspace")

\* mutant: the Final arm loops instead of breaking with None
StepFinal_Loop(l) == Continue(l)

StepFinal(l) == BreakNone(l)

Step(l) ==
    CASE l.state = "Words" -> StepWords(l)
      [] l.state = "Indent" -> StepIndent(l)
      [] l.state = "Comment" -> StepComment(l)
      [] l.state = "Padding" -> StepPadding(l)
      [] l.state = "Bullet" -> StepBullet(l)
      [] l.state = "BulletSpace" -> StepBulletSpace(l)
      [] l.state = "Final" -> StepFinal(l)

\* LineWrap::next: loop until a break
RECURSIVE LineWrapNext(_)
LineWrapNext(l) ==
    LET r == Step(l) IN IF r.ret = "continue" THEN LineWrapNext(r.lw) ELSE r

Frag(r) == [s |-> r.s, arm |-> r.arm]

\* Iterator::collect on a LineWrap: every fragment up to the first None
RECURSIVE Collect(_)
Collect(l) ==
    LET r == LineWrapNext(l) IN
    IF r.ret = "none" THEN <<>> ELSE <<Frag(r)>> \o Collect(r.lw)

----------------------------------------------------------------------------
(* Merger: merge.rs *)

\* mutant: without a bullet only the paddings must match
BulletContinuation_PaddingOnly(upper, lower) ==
    IF upper.bullet = NoWord
    THEN upper.padding = lower.padding
    ELSE LET upper_whitespace == IF upper.indent = lower.indent
                                 THEN upper.padding ELSE upper.indent
             lower_whitespace == IF upper.indent = lower.indent
                                 THEN lower.padding ELSE lower.indent
             bullet_width == WidthCjk(upper.bullet) + 1
         IN /\ upper_whitespace.kind = "Space"
            /\ lower_whitespace.kind = "Space"
            /\ Count(upper_whitespace) + bullet_width = Count(lower_whitespace)

\* mutant: under a bullet only the counts are compared, tabs or spaces
BulletContinuation_AnyKind(upper, lower) ==
    IF upper.bullet = NoWord
    THEN upper.padding = lower.padding /\ upper.indent = lower.indent
    ELSE LET upper_whitespace == IF upper.indent = lower.indent
                                 THEN upper.padding ELSE upper.indent
             lower_whitespace == IF upper.indent = lower.indent
                                 THEN lower.padding ELSE lower.indent
             bullet_width == WidthCjk(upper.bullet) + 1
         IN Count(upper_whitespace) + bullet_width = Count(lower_whitespace)

\* bullet_continuation
BulletContinuation(upper, lower) ==
    IF upper.bullet = NoWord
    THEN upper.padding = lower.padding /\ upper.indent = lower.indent
    ELSE LET upper_whitespace == IF upper.indent = lower.indent
                                 THEN upper.padding ELSE upper.indent
             lower_whitespace == IF upper.indent = lower.indent
                                 THEN lower.padding ELSE lower.indent
             bullet_width == WidthCjk(upper.bullet) + 1
         IN /\ upper_whitespace.kind = "Space"
            /\ lower_whitespace.kind = "Space"
            /\ Count(upper_whitespace) + bullet_width = Count(lower_whitespace)

\* mutant: a line with its own bullet may be merged
ShouldMerge_BulletToo(upper, lower) ==
    /\ upper.words # <<>> /\ lower.words # <<>>
    /\ upper.comment = lower.comment
    /\ BulletContinuation(upper, lower)

\* mutant: lines without words may be merged
ShouldMerge_EmptyToo(upper, lower) ==
    /\ lower.bullet = NoWord
    /\ upper.comment = lower.comment
    /\ BulletContinuation(upper, lower)

\* should_merge
ShouldMerge(upper, lower) ==
    /\ upper.words # <<>> /\ lower.words # <<>>
    /\ lower.bullet = NoWord
    /\ upper.comment = lower.comment
    /\ BulletContinuation(upper, lower)

\* mutant: the merged Line keeps the newline of its first physical line
MergeLines_UpperNewline(upper, lower) ==
    [upper EXCEPT !.words = upper.words \o lower.words]

\* mutant: the words of the lower line are put first
MergeLines_Prepend(upper, lower) ==
    [upper EXCEPT !.words = lower.words \o upper.words,
                  !.newline = upper.newline /\ lower.newline]

\* merge
MergeLines(upper, lower) ==
    [upper EXCEPT !.words = upper.words \o lower.words,
                  !.newline = upper.newline /\ lower.newline]

\* Merge::new over the Lines of a parser; pos of them are consumed, and
\* pulled of them have left the parser: the Peekable holds the Line it has
\* pulled and not handed on
MergeNew(ls) == [lines |-> ls, pos |-> 0, pulled |-> 0]

\* the loop taken as an if: at most one Line is merged into upper
MergeWhile_Once(m, upper) ==
    IF m.pos < Len(m.lines) /\ ShouldMerge(upper, m.lines[m.pos + 1])
    THEN [merge |-> [m EXCEPT !.pos = m.pos + 1], line |-> MergeLines(upper, m.lines[m.pos + 1])]
    ELSE [merge |-> m, line |-> upper]

\* mutant: the next line is compared with the line merged last, not with upper
RECURSIVE MergeWhile_Previous(_, _)
MergeWhile_Previous(m, upper) ==
    IF m.pos < Len(m.lines) /\ ShouldMerge(m.lines[m.pos], m.lines[m.pos + 1])
    THEN MergeWhile_Previous([m EXCEPT !.pos = m.pos + 1],
                             MergeLines(upper, m.lines[m.pos + 1]))
    ELSE [merge |-> m, line |-> upper]

\* the while loop of Merge::next
RECURSIVE MergeWhile(_, _)
MergeWhile(m, upper) ==
    IF m.pos < Len(m.lines) /\ ShouldMerge(upper, m.lines[m.pos + 1])
    THEN MergeWhile([m EXCEPT !.pos = m.pos + 1], MergeLines(upper, m.lines[m.pos + 1]))
    ELSE [merge |-> [m EXCEPT !.pulled = IF m.pos < Len(m.lines) THEN m.pos + 1 ELSE m.pos],
          line |-> upper]

\* Merge::next, when a Line is left
MergeNext(m) == MergeWhile([m EXCEPT !.pos = m.pos + 1], m.lines[m.pos + 1])

\* every Line of the iterator
RECURSIVE MergeCollect(_)
MergeCollect(m) ==
    IF m.pos >= Len(m.lines) THEN <<>>
    ELSE LET r == MergeNext(m) IN <<r.line>> \o MergeCollect(r.merge)

----------------------------------------------------------------------------
(* Driver: lib.rs, wrap and Wrap::next *)

\* the merged Lines wrap() draws from: Merge::new(Parse::new(Lex::new(input)))
MergedLines(input) == MergeCollect(MergeNew(ParseCollect(ParseNew(Lex(input)))))

\* every fragment of the Wrap iterator: one LineWrap after the other
RECURSIVE WrapEach(_, _, _)
WrapEach(ls, toppings, S) ==
    IF ls = <<>> THEN <<>>
    ELSE Collect(LineWrapNew(Head(ls), toppings, S)) \o WrapEach(Tail(ls), toppings, S)

WrapFragments(input, toppings, S) == WrapEach(MergedLines(input), toppings, S)

\* the graphemes of a string of fragments: a '\r' that ends one fragment and
\* a '\n' that starts the next are one grapheme
RECURSIVE Graphemes(_)
Graphemes(gs) ==
    IF Len(gs) < 2 THEN gs
    ELSE IF gs[1] = "cr" /\ gs[2] = "lf" THEN <<"crlf">> \o Graphemes(Tail(Tail(gs)))
    ELSE <<gs[1]>> \o Graphemes(Tail(gs))

RECURSIVE Concat(_)
Concat(ss) == IF ss = <<>> THEN <<>> ELSE Head(ss) \o Concat(Tail(ss))

\* wrap(input, toppings).collect::<String>()
FragmentsString(fs) == Graphemes(Concat([i \in 1..Len(fs) |-> fs[i].s]))

WrapString(input, toppings, S) == FragmentsString(WrapFragments(input, toppings, S))

----------------------------------------------------------------------------
(* The LineWrap specification: one merged line, one configuration, one     *)
(* strategy; every step is one iteration of the loop of LineWrap::next.    *)

WordPool == {<<"z">>, <<"a">>, <<"b", "W">>}
IndentPool == {Space(0), Tab(1)}
CommentPool == {NoWord, <<"#">>}
PaddingPool == {Space(0), Space(1)}
BulletPool == {NoWord, <<"-">>}
TabsPool == {1, 3}
SeqsUpTo(S, n) == UNION {[1..k -> S] : k \in 0..n}

WrapLines ==
    {Line(i, c, p, b, w, nl[1]) :
        i \in IndentPool, c \in CommentPool, p \in PaddingPool, b \in BulletPool,
        w \in SeqsUpTo(WordPool, MaxWords), nl \in {<<FALSE>>, <<TRUE>>}}

\* the tab width matters to a line with tabs only; CRLF shows on a final
\* newline, and is tried with the largest width
WrapToppings(line) ==
    {[tabs |-> t, width |-> w, newline |-> "LF"] :
        t \in IF line.indent.kind = "Tab" THEN TabsPool ELSE {1},
        w \in 0..MaxWidth}
      \cup (IF line.newline
            THEN {[tabs |-> 1, width |-> MaxWidth, newline |-> "CRLF"]} ELSE {})

\* the parts of the program a specification leaves unused
LexIdle == lexer = LexerNew(<<>>) /\ toks = <<>>
ParseIdle == parser = ParseNew(<<>>) /\ lines = <<>>
WrapIdle ==
    /\ top = DefaultToppings
    /\ lw = LineWrapNew(Line(Space(0), NoWord, Space(0), NoWord, <<>>, FALSE), top, "Guacamole")
    /\ out = <<>>
    /\ finished = TRUE

PipeIdle == pipe = [stage |-> "idle"]
MergeIdle == merger = MergeNew(<<>>) /\ merged = <<>>
CliIdle == cli = [status |-> "idle"]
ArithIdle == arith = [stage |-> "idle"]
SetterIdle == setter = [name |-> "idle"]
TransformIdle == transformer = [pos |-> 0] /\ transformed = <<>>
OtherIdle == CliIdle /\ ArithIdle /\ SetterIdle /\ TransformIdle

WrapInit ==
    /\ \E line \in WrapLines, S \in Sauces :
          /\ top \in WrapToppings(line)
          /\ lw = LineWrapNew(line, top, S)
    /\ out = <<>>
    /\ finished = FALSE
    /\ LexIdle /\ ParseIdle /\ PipeIdle /\ MergeIdle /\ OtherIdle

Apply(r) ==
    /\ lw' = r.lw
    /\ out' = IF r.ret = "some" THEN Append(out, Frag(r)) ELSE out
    /\ finished' = (r.ret = "none")
    /\ top' = top
    /\ UNCHANGED <<otherVars, mergeVars, lexVars, parseVars, pipe>>

NextWords == ~finished /\ lw.state = "Words" /\ Apply(StepWords(lw))
NextIndent == ~finished /\ lw.state = "Indent" /\ Apply(StepIndent(lw))
NextComment == ~finished /\ lw.state = "Comment" /\ Apply(StepComment(lw))
NextPadding == ~finished /\ lw.state = "Padding" /\ Apply(StepPadding(lw))
NextBullet == ~finished /\ lw.state = "Bullet" /\ Apply(StepBullet(lw))
NextBulletSpace == ~finished /\ lw.state = "BulletSpace" /\ Apply(StepBulletSpace(lw))
NextFinal == ~finished /\ lw.state = "Final" /\ Apply(StepFinal(lw))

WrapNext ==
    \/ NextWords
    \/ NextIndent
    \/ NextComment
    \/ NextPadding
    \/ NextBullet
    \/ NextBulletSpace
    \/ NextFinal

SpecWrap == WrapInit /\ [][WrapNext]_vars

----------------------------------------------------------------------------
(* The lexer specification: one input string; every step is one call of    *)
(* Lexer::next.                                                            *)

LexAlphabet == {"sp", "tab", "lf", "crlf", "cr", "a", "b"}

\* grapheme segmentation never leaves a lone '\r' before a '\n'
Segmented(input) ==
    \A i \in 1..(Len(input) - 1) : ~(input[i] = "cr" /\ input[i + 1] = "lf")

LexInputs == {i \in SeqsUpTo(LexAlphabet, MaxInput) : Segmented(i)}

LexInit ==
    /\ \E input \in LexInputs : lexer = LexerNew(input)
    /\ toks = <<>>
    /\ ParseIdle /\ WrapIdle /\ PipeIdle /\ MergeIdle /\ OtherIdle

LexReturn(r) ==
    /\ lexer' = r.lexer
    /\ toks' = Append(toks, r.tok)
    /\ UNCHANGED <<otherVars, mergeVars, wrapVars, parseVars, pipe>>

LexDone == toks # <<>> /\ toks[Len(toks)] = NoToken

\* next() hands out the separator that ended the last word
LexNextPending ==
    /\ ~LexDone /\ lexer.pending # NoToken
    /\ LexReturn(LexerNext(lexer))

\* next() scans on and returns a token
LexNextScan ==
    /\ ~LexDone /\ lexer.pending = NoToken
    /\ LexerNext(lexer).tok # NoToken
    /\ LexReturn(LexerNext(lexer))

\* next() finds the input exhausted and returns None
LexNextNone ==
    /\ ~LexDone /\ lexer.pending = NoToken
    /\ LexerNext(lexer).tok = NoToken
    /\ LexReturn(LexerNext(lexer))

LexNextStep ==
    \/ LexNextPending
    \/ LexNextScan
    \/ LexNextNone

SpecLex == LexInit /\ [][LexNextStep]_vars

----------------------------------------------------------------------------
(* The parser specification: the tokens of one input string; every step is *)
(* one call of Parse::next.                                                *)

ParseAlphabet == {"sp", "tab", "lf", "crlf", "a", "#", "-", "1", "."}

ParseInputs == SeqsUpTo(ParseAlphabet, MaxInput)

ParseInit ==
    /\ \E input \in ParseInputs : parser = ParseNew(Lex(input))
    /\ lines = <<>>
    /\ LexIdle /\ WrapIdle /\ PipeIdle /\ MergeIdle /\ OtherIdle

\* what stands in lines for the None that ends the iteration
NoLine == Line([kind |-> "None", n |-> 0], NoWord, Space(0), NoWord, <<>>, FALSE)

ParseDone == lines # <<>> /\ lines[Len(lines)] = NoLine

\* next() returns a Line
ParseNextLine ==
    /\ ~ParseDone /\ Peek(parser) # NoToken
    /\ parser' = ParseLine(parser).parser
    /\ lines' = Append(lines, ParseLine(parser).line)
    /\ UNCHANGED <<otherVars, mergeVars, wrapVars, lexVars, pipe>>

\* next() returns None
ParseNextNone ==
    /\ ~ParseDone /\ Peek(parser) = NoToken
    /\ parser' = parser
    /\ lines' = Append(lines, NoLine)
    /\ UNCHANGED <<otherVars, mergeVars, wrapVars, lexVars, pipe>>

ParseNextStep ==
    \/ ParseNextLine
    \/ ParseNextNone

SpecParse == ParseInit /\ [][ParseNextStep]_vars

----------------------------------------------------------------------------
(* The merger specification: a sequence of Lines; every step is one call of *)
(* Merge::next.                                                            *)

MergeLinePool ==
    {Line(Space(0), c, p, b, w, TRUE) :
        c \in {NoWord, <<"#">>}, p \in {Space(0), Space(2)},
        b \in {NoWord, <<"-">>}, w \in {<<>>, <<<<"a">>>>}}
      \cup {Line(Space(2), NoWord, Space(0), NoWord, <<<<"a">>>>, TRUE),
            Line(Space(2), NoWord, Space(2), NoWord, <<<<"a">>>>, TRUE),
            Line(Space(0), NoWord, Tab(2), NoWord, <<<<"a">>>>, TRUE)}

\* the word of the k-th physical line, if it has one: k letters, so that no
\* two lines have the same word
MergeWord(k) == [i \in 1..k |-> "a"]

\* the physical lines of an input: every one but the last ends with a newline
MergeInputs ==
    {[k \in 1..Len(ls) |->
         [ls[k] EXCEPT !.words = IF ls[k].words = <<>> THEN <<>> ELSE <<MergeWord(k)>>,
                       !.newline = (k < Len(ls) \/ nl)]] :
        ls \in SeqsUpTo(MergeLinePool, MaxLines), nl \in BOOLEAN}

MergeInit ==
    /\ \E ls \in MergeInputs : merger = MergeNew(ls)
    /\ merged = <<>>
    /\ LexIdle /\ ParseIdle /\ WrapIdle /\ PipeIdle /\ OtherIdle

MergeDone == merged # <<>> /\ merged[Len(merged)] = NoLine

\* next() returns the Line it took, no Line after it merges into it
MergeNextAlone ==
    /\ ~MergeDone /\ merger.pos < Len(merger.lines)
    /\ MergeNext(merger).merge.pos = merger.pos + 1
    /\ merger' = MergeNext(merger).merge
    /\ merged' = Append(merged, MergeNext(merger).line)
    /\ UNCHANGED <<otherVars, wrapVars, lexVars, parseVars, pipe>>

\* next() returns the Line it took with the Lines after it merged into it
MergeNextMerged ==
    /\ ~MergeDone /\ merger.pos < Len(merger.lines)
    /\ MergeNext(merger).merge.pos > merger.pos + 1
    /\ merger' = MergeNext(merger).merge
    /\ merged' = Append(merged, MergeNext(merger).line)
    /\ UNCHANGED <<otherVars, wrapVars, lexVars, parseVars, pipe>>

\* next() returns None
MergeNextNone ==
    /\ ~MergeDone /\ merger.pos >= Len(merger.lines)
    /\ merger' = merger
    /\ merged' = Append(merged, NoLine)
    /\ UNCHANGED <<otherVars, wrapVars, lexVars, parseVars, pipe>>

MergeNextStep ==
    \/ MergeNextAlone
    \/ MergeNextMerged
    \/ MergeNextNone

SpecMerge == MergeInit /\ [][MergeNextStep]_vars

----------------------------------------------------------------------------
(* The pipeline specification: wrap() on an input string, then wrap() on   *)
(* its output, with the same Toppings or with a larger width.              *)

RECURSIVE JoinWords(_)
JoinWords(ws) ==
    IF ws = <<>> THEN <<>>
    ELSE Head(ws) \o (IF Len(ws) > 1 THEN SP ELSE <<>>) \o JoinWords(Tail(ws))

\* a physical line written the usual way: single spaces after the bullet and
\* between the words
Written(indent, comment, padding, bullet, words) ==
    indent \o comment \o padding
      \o (IF bullet # <<>> /\ words # <<>> THEN bullet \o SP ELSE bullet)
      \o JoinWords(words)

PipeWordPool == {<<"a">>, <<"-">>, <<"z">>}
PipeWidthPool == {3, 5, 80}

OneLiners ==
    {Written(i, c, p, b, w) :
        i \in {<<>>, <<"sp", "sp">>, <<"tab">>}, c \in {<<>>, <<"#">>},
        p \in {<<>>, <<"sp">>, <<"tab">>}, b \in {<<>>, <<"-">>},
        w \in SeqsUpTo(PipeWordPool, MaxWords)}

UpperLines ==
    {Written(i, c, p, b, w) :
        i \in {<<>>, <<"sp", "sp">>}, c \in {<<>>, <<"#">>},
        p \in {<<>>, <<"sp">>}, b \in {<<>>, <<"-">>},
        w \in {<<<<"a">>>>, <<<<"a">>, <<"a">>>>}}

LowerLines ==
    {<<>>, <<"a">>, <<"sp", "sp", "a">>, <<"sp", "sp", "sp", "sp", "a">>,
     <<"-", "sp", "a">>, <<"#", "sp", "a">>, <<"#", "sp", "sp", "sp", "a">>,
     <<"sp", "sp", "#", "sp", "sp", "sp", "a", "sp", "sp", "a">>}

PipeInputs ==
    {l \o e : l \in OneLiners, e \in {<<>>, <<"lf">>, <<"crlf">>}}
      \cup {u \o <<"lf">> \o l \o e : u \in UpperLines, l \in LowerLines,
                                        e \in {<<>>, <<"lf">>}}

\* Toppings::default() with a width set; newline(CRLF) is tried at the
\* narrowest width, where the strategies break
PipeToppings ==
    {[DefaultToppings EXCEPT !.width = w] : w \in PipeWidthPool}
      \cup {[DefaultToppings EXCEPT !.width = 3, !.newline = "CRLF"]}

PipeInit ==
    /\ \E input \in PipeInputs, t \in PipeToppings, S \in Sauces :
          pipe = [stage |-> "input", input |-> input, sauce |-> S,
                  toppings |-> t, frags |-> <<>>,
                  first |-> <<>>, second |-> <<>>, again |-> "-"]
    /\ LexIdle /\ ParseIdle /\ WrapIdle /\ MergeIdle /\ OtherIdle

\* wrap(input, toppings) is collected into a string
PipeWrap ==
    /\ pipe.stage = "input"
    /\ \E fs \in {WrapFragments(pipe.input, pipe.toppings, pipe.sauce)} :
          pipe' = [pipe EXCEPT !.stage = "once", !.frags = fs, !.first = FragmentsString(fs)]
    /\ UNCHANGED <<otherVars, mergeVars, wrapVars, lexVars, parseVars>>

\* the output is wrapped again with the same Toppings
PipeRewrapSame ==
    /\ pipe.stage = "once"
    /\ pipe' = [pipe EXCEPT !.stage = "twice", !.again = "same",
                            !.second = WrapString(pipe.first, pipe.toppings, pipe.sauce)]
    /\ UNCHANGED <<otherVars, mergeVars, wrapVars, lexVars, parseVars>>

\* the output is wrapped again with the default width, which holds every
\* paragraph of the model on one line
PipeRewrapWide ==
    /\ pipe.stage = "once"
    /\ pipe' = [pipe EXCEPT !.stage = "twice", !.again = "wide",
                            !.second = WrapString(pipe.first,
                                                  [pipe.toppings EXCEPT !.width = DefaultToppings.width],
                                                  pipe.sauce)]
    /\ UNCHANGED <<otherVars, mergeVars, wrapVars, lexVars, parseVars>>

PipeNext ==
    \/ PipeWrap
    \/ PipeRewrapSame
    \/ PipeRewrapWide

SpecPipe == PipeInit /\ [][PipeNext]_vars

----------------------------------------------------------------------------
(* The command line specification: main.rs.  order() reads the arguments   *)
(* one flag at a time; main() then wraps with the strategy it returned.    *)

ArgPool == {"--width", "--tabs", "--crlf", "--salsa", "--guacamole", "-h", "--help", "72", "x"}

\* str::parse::<usize>: the number, or -1 for Err
ParseUsize(v) == IF v = "72" THEN 72 ELSE -1

\* mutant: an argument that is no flag is skipped
OrderOther_Skip ==
    /\ cli.status = "running" /\ cli.pos < Len(cli.args)
    /\ cli.args[cli.pos + 1] \in {"72", "x"}
    /\ cli' = [cli EXCEPT !.pos = cli.pos + 1]
    /\ UNCHANGED <<arith, setter, transformVars, wrapVars, lexVars, parseVars, pipe, mergeVars>>

\* mutant: order() starts from Sauce::Salsa
OrderNew_Salsa(args) ==
    [args |-> args, pos |-> 0, sauce |-> "Salsa", toppings |-> DefaultToppings,
     status |-> "running", used |-> "-", stdin |-> FALSE, stdout |-> FALSE]

\* the locals of order() before its loop
OrderNew(args) ==
    [args |-> args, pos |-> 0, sauce |-> "Guacamole", toppings |-> DefaultToppings,
     status |-> "running", used |-> "-", stdin |-> FALSE, stdout |-> FALSE]

OrderInit ==
    /\ \E args \in SeqsUpTo(ArgPool, MaxArgs) : cli = OrderNew(args)
    /\ ArithIdle /\ SetterIdle /\ TransformIdle
    /\ LexIdle /\ ParseIdle /\ WrapIdle /\ PipeIdle /\ MergeIdle

\* the flag args.next() returns
Flag == IF cli.status = "running" /\ cli.pos < Len(cli.args)
        THEN cli.args[cli.pos + 1] ELSE "-"

\* the value after a flag, "-" when args.next() is None
Value == IF cli.pos + 1 < Len(cli.args) THEN cli.args[cli.pos + 2] ELSE "-"

OrderFrame == UNCHANGED <<arith, setter, transformVars, wrapVars, lexVars, parseVars, pipe, mergeVars>>

OrderWidth ==
    /\ Flag = "--width"
    /\ cli' = IF Value = "-" \/ ParseUsize(Value) < 0
              THEN [cli EXCEPT !.status = "exit1"]
              ELSE [cli EXCEPT !.toppings = ToppingsWidth(cli.toppings, ParseUsize(Value)),
                               !.pos = cli.pos + 2]
    /\ OrderFrame

OrderTabs ==
    /\ Flag = "--tabs"
    /\ cli' = IF Value = "-" \/ ParseUsize(Value) < 0
              THEN [cli EXCEPT !.status = "exit1"]
              ELSE [cli EXCEPT !.toppings = ToppingsTabs(cli.toppings, ParseUsize(Value)),
                               !.pos = cli.pos + 2]
    /\ OrderFrame

OrderCrlf ==
    /\ Flag = "--crlf"
    /\ cli' = [cli EXCEPT !.toppings = ToppingsNewline(cli.toppings, "CRLF"),
                          !.pos = cli.pos + 1]
    /\ OrderFrame

OrderSalsa ==
    /\ Flag = "--salsa"
    /\ cli' = [cli EXCEPT !.sauce = "Salsa", !.pos = cli.pos + 1]
    /\ OrderFrame

OrderGuacamole ==
    /\ Flag = "--guacamole"
    /\ cli' = [cli EXCEPT !.sauce = "Guacamole", !.pos = cli.pos + 1]
    /\ OrderFrame

OrderHelp ==
    /\ Flag \in {"-h", "--help"}
    /\ cli' = [cli EXCEPT !.status = "exit0"]
    /\ OrderFrame

OrderOther ==
    /\ Flag \in {"72", "x"}
    /\ cli' = [cli EXCEPT !.status = "exit1"]
    /\ OrderFrame

\* the arguments are exhausted: Ok((sauce, toppings))
OrderReturn ==
    /\ cli.status = "running" /\ cli.pos >= Len(cli.args)
    /\ cli' = [cli EXCEPT !.status = "ok"]
    /\ OrderFrame

\* main() reads standard input to its end, matches on the sauce and writes
\* what wrap yields to standard output
MainWrap ==
    /\ cli.status = "ok"
    /\ cli' = [cli EXCEPT !.status = "wrapped", !.used = cli.sauce,
                          !.stdin = TRUE, !.stdout = TRUE]
    /\ OrderFrame

OrderNext ==
    \/ OrderWidth
    \/ OrderTabs
    \/ OrderCrlf
    \/ OrderSalsa
    \/ OrderGuacamole
    \/ OrderHelp
    \/ OrderOther
    \/ OrderReturn
    \/ MainWrap

SpecOrder == OrderInit /\ [][OrderNext]_vars

----------------------------------------------------------------------------
(* The arithmetic specification: LineWrap::new and the strategies on       *)
(* machine words.  UsizeMax is the largest usize of the model; an          *)
(* operation whose result is larger overflows: a debug build panics, a     *)
(* release build goes on with the wrapped value.  Overflowed stands for    *)
(* the result of such an operation.                                        *)

Overflowed == -1

\* a + b on usize
CheckedAdd(a, b) ==
    IF a = Overflowed \/ b = Overflowed THEN Overflowed
    ELSE IF a > UsizeMax - b THEN Overflowed
    ELSE a + b

\* a * b on usize
CheckedMul(a, b) ==
    IF a = Overflowed \/ b = Overflowed THEN Overflowed
    ELSE IF a # 0 /\ b > UsizeMax \div a THEN Overflowed
    ELSE a * b

\* the closure whitespace_width, on usize
WhitespaceWidthChecked(ws, toppings) ==
    IF ws.kind = "Space" THEN ws.n ELSE CheckedMul(toppings.tabs, ws.n)

\* unbreakable_width, on usize
UnbreakableWidthChecked(line, toppings) ==
    CheckedAdd(CheckedAdd(CheckedAdd(WhitespaceWidthChecked(line.indent, toppings),
                                     IF line.comment # NoWord THEN WidthCjk(line.comment) ELSE 0),
                          WhitespaceWidthChecked(line.padding, toppings)),
               BulletWidth(line))

\* the inner loop of Salsa::prepare on usize: the minimas, or that an
\* operation overflowed
RECURSIVE SalsaInnerChecked(_, _, _, _, _)
SalsaInnerChecked(words, max, minimas, start, end) ==
    LET n == Len(words) IN
    IF end > n THEN [ovf |-> FALSE, minimas |-> minimas]
    ELSE
      LET line_length == SalsaOffsets(words, end) - SalsaOffsets(words, start)
                           + end - start - 1
      IN
      IF line_length > max /\ end # start + 1 THEN [ovf |-> FALSE, minimas |-> minimas]
      ELSE
        LET penalty == IF end # n
                       THEN CheckedMul(SatSub(max, line_length), SatSub(max, line_length))
                       ELSE 0
            cost == CheckedAdd(minimas[start][2], penalty)
        IN IF cost = Overflowed THEN [ovf |-> TRUE, minimas |-> minimas]
           ELSE SalsaInnerChecked(words, max,
                                  IF cost < minimas[end][2]
                                  THEN [minimas EXCEPT ![end] = <<start, cost>>]
                                  ELSE minimas,
                                  start, end + 1)

\* the outer loop of Salsa::prepare on usize
RECURSIVE SalsaOuterChecked(_, _, _, _)
SalsaOuterChecked(words, max, minimas, start) ==
    IF start >= Len(words) THEN [ovf |-> FALSE, minimas |-> minimas]
    ELSE LET r == SalsaInnerChecked(words, max, minimas, start, start + 1) IN
         IF r.ovf THEN r ELSE SalsaOuterChecked(words, max, r.minimas, start + 1)

\* does Salsa::prepare overflow
SalsaPrepareOverflows(words, max) ==
    SalsaOuterChecked(words, max,
                      [i \in 0..Len(words) |-> IF i = 0 THEN <<0, 0>> ELSE <<0, UsizeMax>>],
                      0).ovf

\* Guacamole::should_break on usize, called for the words from idx on: does
\* self.width + width, or the + 1 after it, overflow
RECURSIVE GuacamoleOverflows(_, _, _)
GuacamoleOverflows(s, words, idx) ==
    IF idx >= Len(words) THEN FALSE
    ELSE LET width == WidthCjk(words[idx + 1]) IN
         IF s.width = 0 THEN GuacamoleOverflows([s EXCEPT !.width = width], words, idx + 1)
         ELSE IF CheckedAdd(s.width, width) = Overflowed THEN TRUE
         ELSE IF s.width + width < s.max
              THEN \/ CheckedAdd(s.width + width, 1) = Overflowed
                   \/ GuacamoleOverflows([s EXCEPT !.width = s.width + width + 1], words, idx + 1)
              ELSE GuacamoleOverflows([s EXCEPT !.width = width], words, idx + 1)

ArithWordPool == {<<"a">>, <<"b", "W">>}

ArithLines ==
    {Line(i, c, p, b, w, FALSE) :
        i \in {Space(0), Tab(2)}, c \in {NoWord, <<"#">>}, p \in {Space(0), Tab(1)},
        b \in {NoWord, <<"-">>}, w \in SeqsUpTo(ArithWordPool, MaxWords)}

\* usize values of width and tabs: small ones, the largest one, and for
\* width the smallest one whose square is not a usize
ArithToppings ==
    {[DefaultToppings EXCEPT !.width = w, !.tabs = t] :
        w \in {0, 80, 46341, UsizeMax}, t \in {0, 4, UsizeMax}}

ArithInit ==
    /\ \E line \in ArithLines, t \in ArithToppings, S \in Sauces :
          arith = [stage |-> "new", line |-> line, toppings |-> t, sauce |-> S,
                   indent |-> 0, padding |-> 0, unbreakable_width |-> 0,
                   breakable_width |-> 0, build |-> "-"]
    /\ CliIdle /\ SetterIdle /\ TransformIdle
    /\ LexIdle /\ ParseIdle /\ WrapIdle /\ PipeIdle /\ MergeIdle

ArithFrame == UNCHANGED <<cli, setter, transformVars, wrapVars, lexVars, parseVars, pipe, mergeVars>>

\* an operation overflowed: panic in a debug build, wrapped value in a
\* release build
ArithOverflow ==
    \E b \in {"debug", "release"} : arith' = [arith EXCEPT !.stage = "overflow", !.build = b]

\* whitespace_width(line.indent) and whitespace_width(line.padding)
NewWhitespaceWidth ==
    /\ arith.stage = "new"
    /\ LET i == WhitespaceWidthChecked(arith.line.indent, arith.toppings)
           p == WhitespaceWidthChecked(arith.line.padding, arith.toppings)
       IN IF i = Overflowed \/ p = Overflowed THEN ArithOverflow
          ELSE arith' = [arith EXCEPT !.stage = "whitespace", !.indent = i, !.padding = p]
    /\ ArithFrame

\* the sum unbreakable_width
NewUnbreakableWidth ==
    /\ arith.stage = "whitespace"
    /\ LET u == UnbreakableWidthChecked(arith.line, arith.toppings) IN
       IF u = Overflowed THEN ArithOverflow
       ELSE arith' = [arith EXCEPT !.stage = "unbreakable", !.unbreakable_width = u]
    /\ ArithFrame

\* toppings.width.saturating_sub(unbreakable_width)
NewBreakableWidth ==
    /\ arith.stage = "unbreakable"
    /\ arith' = [arith EXCEPT !.stage = "breakable",
                              !.breakable_width = SatSub(arith.toppings.width,
                                                         arith.unbreakable_width)]
    /\ ArithFrame

\* S::prepare for Salsa
NewPrepareSalsa ==
    /\ arith.stage = "breakable" /\ arith.sauce = "Salsa"
    /\ IF SalsaPrepareOverflows(arith.line.words, arith.breakable_width) THEN ArithOverflow
       ELSE arith' = [arith EXCEPT !.stage = "prepared"]
    /\ ArithFrame

\* S::prepare for Guacamole, and its should_break for every word
NewPrepareGuacamole ==
    /\ arith.stage = "breakable" /\ arith.sauce = "Guacamole"
    /\ IF GuacamoleOverflows(GuacamolePrepare(arith.line.words, arith.breakable_width),
                             arith.line.words, 0)
       THEN ArithOverflow
       ELSE arith' = [arith EXCEPT !.stage = "prepared"]
    /\ ArithFrame

ArithNext ==
    \/ NewWhitespaceWidth
    \/ NewUnbreakableWidth
    \/ NewBreakableWidth
    \/ NewPrepareSalsa
    \/ NewPrepareGuacamole

SpecArith == ArithInit /\ [][ArithNext]_vars

----------------------------------------------------------------------------
(* The iterator specification: Wrap::next over the Lines of a Merge.  A    *)
(* step is one iteration of the loop of LineWrap::next on the current      *)
(* LineWrap, or Wrap::next taking the next Line, or Wrap::next returning   *)
(* None.  merged holds the Lines drawn so far, out every fragment yielded. *)

\* current = None
NoLineWrap(S) == [state |-> "None", sauce |-> [kind |-> S]]

IterLinePool ==
    {Line(Space(0), NoWord, Space(0), NoWord, <<>>, TRUE),
     Line(Space(0), NoWord, Space(0), NoWord, <<<<"a">>, <<"a">>>>, TRUE),
     Line(Space(0), <<"#">>, Space(1), <<"-">>, <<<<"z">>, <<"a">>>>, TRUE),
     Line(Space(0), <<"#">>, Space(3), NoWord, <<<<"a">>>>, TRUE),
     Line(Tab(1), NoWord, Space(0), <<"-">>, <<>>, TRUE)}

IterToppings == {[DefaultToppings EXCEPT !.width = w] : w \in {0, 3}}

\* every Line a Merge over the pool can return
IterMerged ==
    UNION {{MergeCollect(MergeNew(ls))[i] : i \in 1..Len(MergeCollect(MergeNew(ls)))} :
              ls \in SeqsUpTo(IterLinePool, MaxLines)}

\* LineWrap::new, tabulated over the Lines, Toppings and strategies of this
\* specification
LineWrapNewTable ==
    [line \in IterMerged, toppings \in IterToppings, S \in Sauces |->
        LineWrapNew(line, toppings, S)]

IterInit ==
    /\ \E ls \in SeqsUpTo(IterLinePool, MaxLines), t \in IterToppings, S \in Sauces :
          /\ merger = MergeNew(ls)
          /\ top = t
          /\ lw = NoLineWrap(S)
    /\ merged = <<>>
    /\ out = <<>>
    /\ finished = FALSE
    /\ LexIdle /\ ParseIdle /\ PipeIdle /\ OtherIdle

IterFrame == UNCHANGED <<top, lexVars, parseVars, pipe, otherVars>>

\* mutant: the next Line of the Merge is taken whatever the current LineWrap
WrapTake_Eager ==
    /\ ~finished /\ merger.pos < Len(merger.lines)
    /\ merger' = MergeNext(merger).merge
    /\ merged' = Append(merged, MergeNext(merger).line)
    /\ lw' = LineWrapNewTable[MergeNext(merger).line, top, lw.sauce.kind]
    /\ UNCHANGED <<out, finished>>
    /\ IterFrame

\* Wrap::next with no current LineWrap: the next Line of the Merge is wrapped
WrapTake ==
    /\ ~finished /\ lw.state = "None" /\ merger.pos < Len(merger.lines)
    /\ merger' = MergeNext(merger).merge
    /\ merged' = Append(merged, MergeNext(merger).line)
    /\ lw' = LineWrapNewTable[MergeNext(merger).line, top, lw.sauce.kind]
    /\ UNCHANGED <<out, finished>>
    /\ IterFrame

\* Wrap::next with no current LineWrap and no Line left: None
WrapEnd ==
    /\ ~finished /\ lw.state = "None" /\ merger.pos >= Len(merger.lines)
    /\ finished' = TRUE
    /\ UNCHANGED <<lw, out, merger, merged>>
    /\ IterFrame

\* one iteration of the loop of LineWrap::next on the current LineWrap; when
\* it breaks with None, current is set to None
WrapInner ==
    /\ ~finished /\ lw.state # "None"
    /\ LET r == Step(lw) IN
       /\ lw' = IF r.ret = "none" THEN NoLineWrap(lw.sauce.kind) ELSE r.lw
       /\ out' = IF r.ret = "some" THEN Append(out, Frag(r)) ELSE out
    /\ UNCHANGED <<finished, merger, merged>>
    /\ IterFrame

IterNext ==
    \/ WrapTake
    \/ WrapEnd
    \/ WrapInner

SpecIter == IterInit /\ [][IterNext]_vars

\* the caller goes on calling next() until it returns None, and a call that
\* has started goes on running
SpecIterFair == SpecIter /\ WF_vars(IterNext)

----------------------------------------------------------------------------
(* The strategy specification: one LineWrap over a line without prefix    *)
(* and with more words than SpecWrap tries, so that the two strategies     *)
(* have partitions to choose from.                                         *)

SauceWordPool == {<<"z">>, <<"a">>, <<"b", "W">>}

SauceLines ==
    {Line(Space(0), NoWord, Space(0), NoWord, w, TRUE) :
        w \in SeqsUpTo(SauceWordPool, MaxWords + 2)}
      \cup {Line(Space(0), NoWord, Space(0), <<"-">>, w, TRUE) :
               w \in SeqsUpTo(SauceWordPool, 2)}

SauceToppings == {[DefaultToppings EXCEPT !.width = w] : w \in 0..(MaxWidth + 2)}

SauceInit ==
    /\ \E line \in SauceLines, S \in Sauces :
          /\ top \in SauceToppings
          /\ lw = LineWrapNew(line, top, S)
    /\ out = <<>>
    /\ finished = FALSE
    /\ LexIdle /\ ParseIdle /\ PipeIdle /\ MergeIdle /\ OtherIdle

SpecSauce == SauceInit /\ [][WrapNext]_vars

----------------------------------------------------------------------------
(* The newline specification: one LineWrap over a line with or without a   *)
(* newline, a comment and a bullet, or over a line without words and with  *)
(* any prefix, written with either newline string.                         *)

BreakLines ==
    {Line(Space(0), c, Space(0), b, w, nl) :
        c \in CommentPool, b \in BulletPool,
        w \in SeqsUpTo(WordPool, MaxWords), nl \in BOOLEAN}
      \cup {Line(i, c, p, b, <<>>, nl) :
               i \in IndentPool \cup {Space(2)}, c \in CommentPool,
               p \in PaddingPool \cup {Tab(2)}, b \in BulletPool, nl \in BOOLEAN}

BreakToppings ==
    {[DefaultToppings EXCEPT !.width = w, !.newline = n] :
        w \in 0..MaxWidth, n \in {"LF", "CRLF"}}

BreakInit ==
    /\ \E line \in BreakLines, S \in Sauces :
          /\ top \in BreakToppings
          /\ lw = LineWrapNew(line, top, S)
    /\ out = <<>>
    /\ finished = FALSE
    /\ LexIdle /\ ParseIdle /\ PipeIdle /\ MergeIdle /\ OtherIdle

SpecBreak == BreakInit /\ [][WrapNext]_vars

----------------------------------------------------------------------------
(* The configuration specification: a Toppings is made by                  *)
(* Toppings::default and then by any chain of the fluent setters.          *)

ToppingsWidths == {0, 72, 80, 100, UsizeMax}
ToppingsTabWidths == {0, 2, 4, 8}
Newlines == {"LF", "CRLF"}

ToppingsInit ==
    /\ top = DefaultToppings
    /\ setter = [name |-> "default", arg |-> "-", self |-> DefaultToppings]
    /\ lw = LineWrapNew(Line(Space(0), NoWord, Space(0), NoWord, <<>>, FALSE), top, "Guacamole")
    /\ out = <<>>
    /\ finished = TRUE
    /\ LexIdle /\ ParseIdle /\ PipeIdle /\ MergeIdle /\ CliIdle /\ ArithIdle /\ TransformIdle

ToppingsFrame ==
    UNCHANGED <<lw, out, finished, lexVars, parseVars, pipe, mergeVars, cli, arith, transformVars>>

SetWidth ==
    /\ \E width \in ToppingsWidths :
          /\ top' = ToppingsWidth(top, width)
          /\ setter' = [name |-> "width", arg |-> width, self |-> top]
    /\ ToppingsFrame

SetTabs ==
    /\ \E tabs \in ToppingsTabWidths :
          /\ top' = ToppingsTabs(top, tabs)
          /\ setter' = [name |-> "tabs", arg |-> tabs, self |-> top]
    /\ ToppingsFrame

SetNewline ==
    /\ \E newline \in Newlines :
          /\ top' = ToppingsNewline(top, newline)
          /\ setter' = [name |-> "newline", arg |-> newline, self |-> top]
    /\ ToppingsFrame

ToppingsNext ==
    \/ SetWidth
    \/ SetTabs
    \/ SetNewline

SpecToppings == ToppingsInit /\ [][ToppingsNext]_vars

----------------------------------------------------------------------------
(* Reading the output of a LineWrap *)

IsNewlineFrag(f) == f.s \in {<<"lf">>, <<"crlf">>}

\* the contents of the fragments of a given arm, in order
RECURSIVE FragsOf(_, _)
FragsOf(fs, arm) ==
    IF fs = <<>> THEN <<>>
    ELSE (IF Head(fs).arm = arm THEN <<Head(fs).s>> ELSE <<>>) \o FragsOf(Tail(fs), arm)

\* the output lines: the fragments between newline fragments
RECURSIVE SplitLines(_, _)
SplitLines(fs, cur) ==
    IF fs = <<>> THEN <<cur>>
    ELSE IF IsNewlineFrag(Head(fs)) THEN <<cur>> \o SplitLines(Tail(fs), <<>>)
    ELSE SplitLines(Tail(fs), Append(cur, Head(fs)))

\* a final newline ends the last output line, it does not open another
SubLines(fs) ==
    LET ls == SplitLines(fs, <<>>) IN
    IF fs # <<>> /\ IsNewlineFrag(fs[Len(fs)]) THEN SubSeq(ls, 1, Len(ls) - 1) ELSE ls

Contents(fs) == [i \in 1..Len(fs) |-> fs[i].s]

Repeat(x, n) == [i \in 1..n |-> x]

IsPrefixOf(p, q) == Len(p) <= Len(q) /\ SubSeq(q, 1, Len(p)) = p

\* P = indent, comment, padding, as output fragments
PrefixFrags(line) ==
    Repeat(WhitespaceAsStr(line.indent), line.indent.n)
      \o (IF line.comment # NoWord THEN <<line.comment>> ELSE <<>>)
      \o Repeat(WhitespaceAsStr(line.padding), line.padding.n)

\* the spec's token_width of an output fragment
FragWidth(f, toppings) ==
    CASE f.s = SP -> 1
      [] f.s = TAB -> toppings.tabs
      [] IsNewlineFrag(f) -> 0
      [] OTHER -> WidthCjk(f.s)

RECURSIVE SumWidth(_, _)
SumWidth(fs, toppings) ==
    IF fs = <<>> THEN 0 ELSE FragWidth(Head(fs), toppings) + SumWidth(Tail(fs), toppings)

WordCount(fs) == Len(FragsOf(fs, "word"))

\* the line's content is one word, wider than the strategy's budget
SingleOverflowingWord(fs, line, toppings) ==
    /\ WordCount(fs) = 1
    /\ WidthCjk(FragsOf(fs, "word")[1]) > BreakableWidth(line, toppings)

\* position in fs of the k-th yielded word
RECURSIVE WordPos(_, _, _)
WordPos(fs, k, at) ==
    IF fs[at].arm = "word"
    THEN IF k = 1 THEN at ELSE WordPos(fs, k - 1, at + 1)
    ELSE WordPos(fs, k, at + 1)

\* the words joined by single spaces
RECURSIVE JoinedWidth(_)
JoinedWidth(words) ==
    IF words = <<>> THEN 0
    ELSE WidthCjk(Head(words)) + (IF Len(words) > 1 THEN 1 ELSE 0) + JoinedWidth(Tail(words))

Done == lw.state = "Final"

----------------------------------------------------------------------------
(* Claims on LineWrap *)

\* C1: the words LineWrap yields are, at every point, the first words of the
\* line in order and unchanged, and once the line is done they are all of
\* them: nothing dropped, duplicated, split or reordered.
C1_WordsOnceInOrder ==
    LET ws == FragsOf(out, "word") IN
    /\ IsPrefixOf(ws, lw.line.words)
    /\ Len(ws) = lw.word_idx - (IF lw.pending # NoWord THEN 1 ELSE 0)
    /\ (Done => ws = lw.line.words)

C1_Witness ==
    /\ Done
    /\ Len(lw.line.words) = MaxWords
    /\ Len(FragsOf(out, "break")) >= 1
    /\ Len(FragsOf(out, "space")) >= 1
    /\ FragsOf(out, "word") = lw.line.words

\* what follows the prefix on output line k of a line with a bullet
BulletPart(line, k) ==
    IF k = 1 THEN <<line.bullet, SP>> ELSE Repeat(SP, BulletWidth(line))

\* output line k starts with P, then the bullet part if there is a bullet,
\* and then something that is not one more space
StartsWithPrefix(ln, line, k) ==
    LET p == PrefixFrags(line) \o (IF line.bullet # NoWord THEN BulletPart(line, k) ELSE <<>>)
    IN /\ IsPrefixOf(p, Contents(ln))
       /\ line.bullet # NoWord => (Len(ln) > Len(p) /\ ln[Len(p) + 1].s # SP)

\* C2 as stated: every output line of every merged line starts with P, and
\* with a bullet the first one goes on with the bullet and exactly one space,
\* every later one with bullet_width spaces.
C2_PrefixReplication_Original ==
    Done => \A k \in 1..Len(SubLines(out)) : StartsWithPrefix(SubLines(out)[k], lw.line, k)

\* C2 amended: the same for every merged line that has at least one word; a
\* line without words yields P and then the bullet, if any, with no space.
C2_PrefixReplication ==
    Done =>
      IF lw.line.words # <<>>
      THEN \A k \in 1..Len(SubLines(out)) : StartsWithPrefix(SubLines(out)[k], lw.line, k)
      ELSE Contents(out) =
             PrefixFrags(lw.line)
               \o (IF lw.line.bullet # NoWord THEN <<lw.line.bullet>> ELSE <<>>)
               \o (IF lw.line.newline THEN <<NewlineAsStr(top.newline)>> ELSE <<>>)

C2_Witness ==
    /\ Done
    /\ lw.line.bullet # NoWord
    /\ lw.line.comment # NoWord
    /\ lw.line.indent.n > 0
    /\ Len(SubLines(out)) >= 3
    /\ \A k \in 1..Len(SubLines(out)) : StartsWithPrefix(SubLines(out)[k], lw.line, k)

WidthBound(toppings) ==
    \A k \in 1..Len(SubLines(out)) :
        LET ln == SubLines(out)[k] IN
        \/ SingleOverflowingWord(ln, lw.line, toppings)
        \/ SumWidth(ln, toppings) <= toppings.width

\* C3 as stated: every output line that is not a single overflowing word is
\* at most toppings.width wide, prefix included.
C3_WidthBound_Original == Done => WidthBound(top)

\* C3 amended: the bound holds whenever the unbreakable prefix itself fits in
\* toppings.width; the prefix is never wrapped and may exceed the width alone.
C3_WidthBound ==
    (Done /\ UnbreakableWidth(lw.line, top) <= top.width) => WidthBound(top)

C3_Witness ==
    /\ Done
    /\ UnbreakableWidth(lw.line, top) <= top.width
    /\ lw.line.indent.kind = "Tab" /\ top.tabs > 1
    /\ \E k \in 1..Len(SubLines(out)) :
          /\ WordCount(SubLines(out)[k]) >= 2
          /\ SumWidth(SubLines(out)[k], top) = top.width
    /\ Len(SubLines(out)) >= 2

\* C4: a word wider than breakable_width has a line of its own: a newline,
\* not a space, is what separates it from the word before and the word after.
C4_BigWordAlone ==
    Done =>
      \A k \in 1..Len(lw.line.words) :
          WidthCjk(lw.line.words[k]) > BreakableWidth(lw.line, top) =>
            /\ k > 1 => IsNewlineFrag(out[WordPos(out, k - 1, 1) + 1])
            /\ k < Len(lw.line.words) => IsNewlineFrag(out[WordPos(out, k, 1) + 1])

C4_Witness ==
    /\ Done
    /\ Len(lw.line.words) = 3
    /\ WidthCjk(lw.line.words[2]) > BreakableWidth(lw.line, top)
    /\ WidthCjk(lw.line.words[1]) + 1 + WidthCjk(lw.line.words[3])
         <= BreakableWidth(lw.line, top)
    /\ WidthCjk(lw.line.words[1]) > 0
    /\ Len(FragsOf(out, "break")) = 2

OtherSauce(S) == IF S = "Guacamole" THEN "Salsa" ELSE "Guacamole"

FitsOnOneLine(line, toppings) ==
    UnbreakableWidth(line, toppings) + JoinedWidth(line.words) <= toppings.width

\* C8: when the paragraph fits on one line, the fragments this strategy has
\* yielded for it are the fragments the other strategy yields for it.
C8_StrategyAgreement ==
    (Done /\ FitsOnOneLine(lw.line, top)) =>
        out = Collect(LineWrapNew(lw.line, top, OtherSauce(lw.sauce.kind)))

----------------------------------------------------------------------------
(* Claims on the lexer and the parser *)

RECURSIVE Flatten(_)
Flatten(ss) == IF ss = <<>> THEN <<>> ELSE Head(ss) \o Flatten(Tail(ss))

\* the textual form of a token
TokenText(t) ==
    CASE t.k = "Space" -> SP
      [] t.k = "Tab" -> TAB
      [] t.k = "Newline" -> NewlineAsStr(t.nl)
      [] t.k = "Word" -> t.w
      [] OTHER -> <<>>

TokensText(ts) == Flatten([i \in 1..Len(ts) |-> TokenText(ts[i])])

IsWhitespaceToken(t) == t.k \in {"Space", "Tab"}

\* a Line written out slot by slot in grammar order; the newline slot is a
\* flag, written as a line feed
Unparse(line) ==
    Flatten(Repeat(WhitespaceAsStr(line.indent), line.indent.n))
      \o line.comment
      \o Flatten(Repeat(WhitespaceAsStr(line.padding), line.padding.n))
      \o line.bullet
      \o Flatten(line.words)
      \o (IF line.newline THEN <<"lf">> ELSE <<>>)

UnparseAll(ls) == Flatten([i \in 1..Len(ls) |-> Unparse(ls[i])])

\* the Lines returned, without the None that ends them
ParsedLines == IF ParseDone THEN SubSeq(lines, 1, Len(lines) - 1) ELSE lines

\* C10 as stated: the slots of the Lines, concatenated in grammar order, are
\* the input.
C10_ParserFaithful_Original ==
    ParseDone => UnparseAll(ParsedLines) = TokensText(parser.tokens)

\* the tokens of a token sequence, split at its Newline tokens
RECURSIVE PhysicalLines(_, _)
PhysicalLines(ts, cur) ==
    IF ts = <<>> THEN IF cur = <<>> THEN <<>> ELSE <<cur>>
    ELSE IF Head(ts).k = "Newline"
         THEN <<Append(cur, TNewline("LF"))>> \o PhysicalLines(Tail(ts), <<>>)
         ELSE PhysicalLines(Tail(ts), Append(cur, Head(ts)))

\* the length of the longest run of one whitespace token that starts at from
RunLength(ts, from) ==
    IF from > Len(ts) \/ ~IsWhitespaceToken(ts[from]) THEN 0
    ELSE CHOOSE n \in 1..(Len(ts) - from + 1) :
            /\ \A j \in from..(from + n - 1) : ts[j] = ts[from]
            /\ from + n > Len(ts) \/ ts[from + n] # ts[from]

\* what a Line holds of a physical line: the indent run, a comment token
\* right after it, the padding run right after that, and from there on
\* everything but spaces and tabs
HeldTokens(ts) ==
    LET i == RunLength(ts, 1)
        c == IF i < Len(ts) /\ ts[i + 1].k = "Word" /\ ts[i + 1].w \in COMMENT_TOKENS
             THEN 1 ELSE 0
        pd == RunLength(ts, i + c + 1)
        rest == SubSeq(ts, i + c + pd + 1, Len(ts))
    IN SubSeq(ts, 1, i + c + pd) \o SelectSeq(rest, LAMBDA t : ~IsWhitespaceToken(t))

HeldText(ts) ==
    LET pl == PhysicalLines(ts, <<>>) IN
    Flatten([i \in 1..Len(pl) |-> TokensText(HeldTokens(pl[i]))])

\* C10 amended: the slots of the Lines, concatenated in grammar order, are
\* the input without the spaces and tabs that follow a line's padding slot
\* and with every newline read as LF: a Line holds neither those separators
\* nor the kind of its newline.
C10_ParserFaithful ==
    /\ UnparseAll(ParsedLines) \o TokensText(SubSeq(parser.tokens, parser.pos + 1, Len(parser.tokens)))
         = HeldText(SubSeq(parser.tokens, 1, parser.pos))
              \o TokensText(SubSeq(parser.tokens, parser.pos + 1, Len(parser.tokens)))
    /\ ParseDone => UnparseAll(ParsedLines) = HeldText(parser.tokens)

C10_Witness ==
    /\ ParseDone
    /\ \E i \in 1..Len(ParsedLines) :
          /\ ParsedLines[i].comment # NoWord
          /\ Len(ParsedLines[i].words) >= 1
          /\ ParsedLines[i].padding.n >= 1
    /\ UnparseAll(ParsedLines) # TokensText(parser.tokens)
    /\ UnparseAll(ParsedLines) = HeldText(parser.tokens)

----------------------------------------------------------------------------
(* Claims on the pipeline *)

IsNewlineGrapheme(g) == g \in {"lf", "crlf"}

\* the number of lines of a string; a final newline ends the last line
LineCount(s) ==
    Cardinality({i \in 1..Len(s) : IsNewlineGrapheme(s[i])})
      + (IF s # <<>> /\ ~IsNewlineGrapheme(s[Len(s)]) THEN 1 ELSE 0)

\* one physical line, ended by a line feed or by the end of the input
IsSingleLine(s) ==
    /\ s # <<>>
    /\ \A i \in 1..(Len(s) - 1) : ~IsNewlineGrapheme(s[i])
    /\ s[Len(s)] # "crlf"

MaxOf(ns) == IF ns = {} THEN 0 ELSE CHOOSE n \in ns : \A m \in ns : m <= n

\* the width of the longest word of the paragraphs of an input
LongestWord(input) ==
    LET ls == MergedLines(input) IN
    MaxOf(UNION {{WidthCjk(ls[i].words[j]) : j \in 1..Len(ls[i].words)} : i \in 1..Len(ls)})

\* C5: a single-line paragraph that wrap() has put on several lines at a
\* narrow width comes back as the original input when that output is
\* wrapped at a width that holds the paragraph on one line.
C5_NarrowThenWide ==
    (/\ pipe.stage = "twice" /\ pipe.again = "wide"
     /\ IsSingleLine(pipe.input)
     /\ pipe.toppings.width < DefaultToppings.width
     /\ LineCount(pipe.first) > 1)
        => pipe.second = pipe.input

\* C6: at a width of at least the longest word of the input, wrap() writes
\* one output line for every merged paragraph, and wrapping that output
\* again with the same Toppings returns it unchanged.
C6_LargeWidthFixedPoint ==
    (/\ pipe.stage = "twice" /\ pipe.again = "same"
     /\ pipe.toppings.width >= LongestWord(pipe.input))
        => /\ LineCount(pipe.first) = Len(MergedLines(pipe.input))
           /\ pipe.second = pipe.first

\* C7: wrapping the output of wrap() again, with the same Toppings and the
\* same strategy, returns that output unchanged.
C7_Idempotent ==
    (pipe.stage = "twice" /\ pipe.again = "same") => pipe.second = pipe.first

----------------------------------------------------------------------------
(* Claims on the merger *)

\* the Lines returned, without the None that ends them
MergedSoFar == IF MergeDone THEN SubSeq(merged, 1, Len(merged) - 1) ELSE merged

\* C11: the Lines the merger has returned are left as they are by another
\* run of the merger, and no two adjacent ones satisfy should_merge.
C11_MergerIdempotent ==
    /\ MergeCollect(MergeNew(MergedSoFar)) = MergedSoFar
    /\ \A i \in 1..(Len(MergedSoFar) - 1) : ~ShouldMerge(MergedSoFar[i], MergedSoFar[i + 1])

C11_Witness ==
    /\ MergeDone
    /\ Len(merger.lines) = MaxLines
    /\ Len(MergedSoFar) = 2
    /\ Len(MergedSoFar[1].words) = 2
    /\ MergedSoFar[1].bullet # NoWord
    /\ MergeCollect(MergeNew(MergedSoFar)) = MergedSoFar

\* an input with every CRLF written as LF
AsLF(s) == [i \in 1..Len(s) |-> IF s[i] = "crlf" THEN "lf" ELSE s[i]]

HasCRLF(s) == \E i \in 1..Len(s) : s[i] = "crlf"

\* C12: every fragment wrap() yields at a break or at the end of a line is
\* toppings.newline and no other fragment is a newline; the same input with
\* its CRLFs written as LF gives the same output.
C12_NewlineConfigured ==
    pipe.stage = "once" =>
        /\ \A i \in 1..Len(pipe.frags) :
              IF pipe.frags[i].arm \in {"break", "final"}
              THEN pipe.frags[i].s = NewlineAsStr(pipe.toppings.newline)
              ELSE ~IsNewlineFrag(pipe.frags[i])
        /\ HasCRLF(pipe.input) =>
              WrapString(AsLF(pipe.input), pipe.toppings, pipe.sauce) = pipe.first

C12_Witness ==
    /\ pipe.stage = "once"
    /\ HasCRLF(pipe.input)
    /\ pipe.toppings.newline = "LF"
    /\ Len(FragsOf(pipe.frags, "break")) >= 1
    /\ Len(FragsOf(pipe.frags, "final")) = 1
    /\ ~HasCRLF(pipe.first)

EndsWithNewline(s) == s # <<>> /\ IsNewlineGrapheme(s[Len(s)])

\* C13: the last fragment wrap() yields is a newline exactly when the input
\* ends with a newline, and the last merged Line has a newline exactly then.
C13_FinalNewline ==
    pipe.stage = "once" =>
        /\ (pipe.frags # <<>> /\ IsNewlineFrag(pipe.frags[Len(pipe.frags)]))
              <=> EndsWithNewline(pipe.input)
        /\ LET ls == MergedLines(pipe.input) IN
           ls # <<>> => (ls[Len(ls)].newline <=> EndsWithNewline(pipe.input))

C13_Witness ==
    /\ pipe.stage = "once"
    /\ ~EndsWithNewline(pipe.input)
    /\ LineCount(pipe.input) = 2
    /\ Len(MergedLines(pipe.input)) = 1
    /\ pipe.frags # <<>> /\ pipe.frags[Len(pipe.frags)].arm = "word"

----------------------------------------------------------------------------
(* Claims on the slots of a Line *)

CommentWords ==
    {<<"#">>, <<">">>, <<";">>, <<"/", "/">>, <<"-", "-">>, <<";", ";">>,
     <<"/", "/", "/">>, <<"/", "/", "!">>}

\* -, *, the bullet sign, or /^[0-9]+[.)]$/
BulletWords(w) ==
    \/ w \in {<<"-">>, <<"*">>, <<"bul">>}
    \/ \E n \in 1..Len(w) :
          /\ Len(w) = n + 1
          /\ \A i \in 1..n : w[i] \in {"0", "1", "2", "3", "4", "5", "6", "7", "8", "9"}
          /\ w[n + 1] \in {".", ")"}

\* the word at position at of a physical line, if a word stands there
WordAt(ts, at) == IF at <= Len(ts) /\ ts[at].k = "Word" THEN ts[at].w ELSE NoWord

\* the slots of a Line against the tokens of its physical line: i tokens of
\* indent, then the comment slot, then pd tokens of padding, then the bullet
\* slot, then the words
SlotsClassified(ts, line) ==
    LET i == RunLength(ts, 1)
        first == WordAt(ts, i + 1)
        c == IF line.comment # NoWord THEN 1 ELSE 0
        pd == RunLength(ts, i + c + 1)
        next == WordAt(ts, i + c + pd + 1)
        b == IF line.bullet # NoWord THEN 1 ELSE 0
        rest == SubSeq(ts, i + c + pd + b + 1, Len(ts))
        restWords == SelectSeq(rest, LAMBDA t : t.k = "Word")
    IN /\ line.comment # NoWord <=> (first # NoWord /\ first \in CommentWords)
       /\ line.comment # NoWord => line.comment = first
       /\ line.bullet # NoWord <=> (next # NoWord /\ BulletWords(next))
       /\ line.bullet # NoWord => line.bullet = next
       /\ line.words = [k \in 1..Len(restWords) |-> restWords[k].w]

\* C14: for every Line returned, the comment slot holds the word right after
\* the indent iff that word is a comment token, the bullet slot holds the
\* word right after the padding iff that word is a bullet, and every other
\* word of the physical line is in words.
C14_SlotClassification ==
    LET pl == PhysicalLines(SubSeq(parser.tokens, 1, parser.pos), <<>>) IN
    /\ Len(pl) = Len(ParsedLines)
    /\ \A k \in 1..Len(pl) : SlotsClassified(pl[k], ParsedLines[k])

C14_Witness ==
    /\ ParseDone
    /\ \E k \in 1..Len(ParsedLines) :
          /\ ParsedLines[k].bullet = <<"1", ".">>
          /\ ParsedLines[k].words = <<<<".">>>>
    /\ SlotsClassified(PhysicalLines(parser.tokens, <<>>)[1], ParsedLines[1])

----------------------------------------------------------------------------
(* More claims on LineWrap *)

\* C15: with a breakable width of 0 no space is ever yielded between two
\* words, and the finished output has one whole word on every line.
C15_ZeroBudgetOneWordPerLine ==
    BreakableWidth(lw.line, top) = 0 =>
        /\ FragsOf(out, "space") = <<>>
        /\ Done /\ lw.line.words # <<>> =>
              /\ \A i \in 1..Len(SubLines(out)) : WordCount(SubLines(out)[i]) = 1
              /\ Len(SubLines(out)) = Len(lw.line.words)
              /\ FragsOf(out, "word") = lw.line.words

C15_Witness ==
    /\ Done
    /\ top.width > 0
    /\ BreakableWidth(lw.line, top) = 0
    /\ Len(lw.line.words) = MaxWords
    /\ lw.line.words[1] = <<"z">>
    /\ lw.sauce.kind = "Salsa"
    /\ Len(SubLines(out)) = MaxWords

\* the output with every break, and the prefix written after it, replaced
\* by a single space
RECURSIVE Unbreak(_, _)
Unbreak(fs, continuation) ==
    IF fs = <<>> THEN <<>>
    ELSE IF Head(fs).arm = "break" THEN <<SP>> \o Unbreak(Tail(fs), TRUE)
    ELSE IF continuation /\ Head(fs).arm \in {"indent", "comment", "padding", "bulletspace"}
         THEN Unbreak(Tail(fs), TRUE)
    ELSE <<Head(fs).s>> \o Unbreak(Tail(fs), FALSE)

AllStartWithPrefix(fs, line) ==
    \A i \in 1..Len(SubLines(fs)) : IsPrefixOf(PrefixFrags(line), Contents(SubLines(fs)[i]))

\* C16: the finished output of first-fit and the output of optimal-fit for
\* the same Line and Toppings hold the same words in the same order, start
\* every line with the same prefix, end with the same final newline, and
\* are equal once every break and the prefix after it is replaced by one
\* space.
C16_StrategySwitch ==
    (finished /\ lw.sauce.kind = "Guacamole") =>
        LET other == Collect(LineWrapNew(lw.line, top, OtherSauce(lw.sauce.kind))) IN
        /\ FragsOf(out, "word") = FragsOf(other, "word")
        /\ AllStartWithPrefix(out, lw.line) /\ AllStartWithPrefix(other, lw.line)
        /\ FragsOf(out, "final") = FragsOf(other, "final")
        /\ Unbreak(out, FALSE) = Unbreak(other, FALSE)

C16_Witness ==
    /\ finished /\ lw.sauce.kind = "Guacamole"
    /\ lw.line.comment # NoWord /\ lw.line.bullet # NoWord /\ lw.line.newline
    /\ LET other == Collect(LineWrapNew(lw.line, top, OtherSauce(lw.sauce.kind))) IN
       /\ Len(FragsOf(out, "break")) = 2
       /\ Len(FragsOf(other, "break")) = 1
       /\ Unbreak(out, FALSE) = Unbreak(other, FALSE)

----------------------------------------------------------------------------
(* Claims on the command line *)

StrategyFlags == {"--salsa", "--guacamole"}

NoStrategyFlag == \A i \in 1..Len(cli.args) : cli.args[i] \notin StrategyFlags

C20_DefaultIsSalsa ==
    (cli.status = "wrapped" /\ NoStrategyFlag) => cli.used = "Salsa"

----------------------------------------------------------------------------
(* Claims on the arithmetic *)

\* C17: building a LineWrap and preparing either strategy never overflows,
\* whatever usize values width and tabs have.
C17_NoOverflow == arith.stage # "overflow"

----------------------------------------------------------------------------
(* Claims on the Wrap iterator *)

\* C18: Wrap::next returns None in the end, so only finitely many fragments
\* are yielded and no run of loop iterations goes on for ever; and a
\* LineWrap that is in Final yields nothing further.
C18_Termination ==
    /\ <>finished
    /\ [][lw.state = "Final" => out' = out]_vars

C18_Witness ==
    /\ finished
    /\ Len(merger.lines) = MaxLines
    /\ Len(merged) = 2
    /\ Len(FragsOf(out, "break")) >= 1
    /\ Len(FragsOf(out, "final")) = 2

----------------------------------------------------------------------------
(* Claims on the command line *)

\* what reading args from position i on, left to right, ends in: "exit0" at
\* a help flag, "exit1" at a flag whose value is missing or no number or at
\* an unknown argument, "ok" when the arguments run out
RECURSIVE ArgsOutcome(_, _)
ArgsOutcome(args, i) ==
    IF i > Len(args) THEN "ok"
    ELSE IF args[i] \in {"-h", "--help"} THEN "exit0"
    ELSE IF args[i] \in {"--width", "--tabs"}
         THEN IF i + 1 > Len(args) \/ ParseUsize(args[i + 1]) < 0
              THEN "exit1" ELSE ArgsOutcome(args, i + 2)
    ELSE IF args[i] \in {"--crlf", "--salsa", "--guacamole"}
         THEN ArgsOutcome(args, i + 1)
    ELSE "exit1"

----------------------------------------------------------------------------
(* Claims on the configuration *)

\* C22: Toppings::default is width 80, tabs 4 and newline LF, and what a
\* setter returns has the given value in the field the setter names and
\* the receiver's values in the other two fields.
C22_ToppingsSetters ==
    /\ setter.name = "default" => top.width = 80 /\ top.tabs = 4 /\ top.newline = "LF"
    /\ setter.name = "width" =>
          /\ top.width = setter.arg
          /\ top.tabs = setter.self.tabs /\ top.newline = setter.self.newline
    /\ setter.name = "tabs" =>
          /\ top.tabs = setter.arg
          /\ top.width = setter.self.width /\ top.newline = setter.self.newline
    /\ setter.name = "newline" =>
          /\ top.newline = setter.arg
          /\ top.width = setter.self.width /\ top.tabs = setter.self.tabs

C22_Witness ==
    /\ setter.name = "tabs"
    /\ setter.self.width = 72 /\ setter.self.newline = "CRLF" /\ setter.self.tabs = 2
    /\ top = [tabs |-> 8, width |-> 72, newline |-> "CRLF"]

----------------------------------------------------------------------------
(* Claims on the first-fit strategy *)

\* the words of output line k
LineWords(k) == FragsOf(SubLines(out)[k], "word")

\* some output line has, after one of its words from the second on, words
\* and single spaces exactly max columns wide
ExactFitAppended(max) ==
    \E k \in 1..Len(SubLines(out)) : \E n \in 2..Len(LineWords(k)) :
        JoinedWidth(SubSeq(LineWords(k), 1, n)) = max

\* C23 as stated: with first-fit, a word whose addition with its leading
\* space makes the line exactly max columns wide is not appended.
C23_ExactFit_Original ==
    (Done /\ lw.sauce.kind = "Guacamole") => ~ExactFitAppended(BreakableWidth(lw.line, top))

\* C23 amended: width + w < max leaves out the leading space, so with
\* first-fit a word is appended whenever the line with the space and the
\* word is at most max columns wide, an exact fit included; a new line is
\* started only before a word that would make the line wider than max, or
\* after a line whose width is 0.
C23_ExactFit ==
    (Done /\ lw.sauce.kind = "Guacamole") =>
      LET max == BreakableWidth(lw.line, top) IN
      /\ \A k \in 1..Len(SubLines(out)) : \A n \in 2..Len(LineWords(k)) :
            JoinedWidth(SubSeq(LineWords(k), 1, n)) <= max
      /\ \A k \in 1..(Len(SubLines(out)) - 1) :
            \/ JoinedWidth(LineWords(k)) = 0
            \/ JoinedWidth(LineWords(k)) + 1 + WidthCjk(LineWords(k + 1)[1]) > max

C23_Witness ==
    /\ Done /\ lw.sauce.kind = "Guacamole"
    /\ Len(lw.line.words) = MaxWords + 2
    /\ Len(SubLines(out)) = 3
    /\ ExactFitAppended(BreakableWidth(lw.line, top))

----------------------------------------------------------------------------
(* Claims on the optimal-fit strategy *)

\* the lines a set of break indices cuts the words into: word idx (from 0)
\* starts a line when idx is in breaks; i is the next word, cur the line
\* under construction
RECURSIVE Partition(_, _, _, _)
Partition(words, breaks, i, cur) ==
    IF i > Len(words) THEN (IF cur = <<>> THEN <<>> ELSE <<cur>>)
    ELSE IF (i - 1) \in breaks /\ cur # <<>>
         THEN <<cur>> \o Partition(words, breaks, i + 1, <<words[i]>>)
         ELSE Partition(words, breaks, i + 1, Append(cur, words[i]))

\* no line of two or more words is longer than max
Feasible(ls, max) ==
    \A k \in 1..Len(ls) : Len(ls[k]) >= 2 => JoinedWidth(ls[k]) <= max

\* the sum over all lines but the last of (max - line_length)^2, saturating
RECURSIVE TotalPenalty(_, _)
TotalPenalty(ls, max) ==
    IF Len(ls) <= 1 THEN 0
    ELSE SatSub(max, JoinedWidth(Head(ls))) * SatSub(max, JoinedWidth(Head(ls)))
           + TotalPenalty(Tail(ls), max)

\* C24: the breaks of Salsa::prepare cut the words into consecutive lines of
\* which none with two or more words is longer than max, and whose total
\* penalty no other such partition undercuts; the lines LineWrap writes are
\* the lines of that partition.
C24_SalsaMinimal ==
    lw.sauce.kind = "Salsa" =>
      LET words == lw.line.words
          max == BreakableWidth(lw.line, top)
          ls == Partition(words, lw.sauce.breaks, 1, <<>>)
      IN
      /\ lw.word_idx = 0 =>
            /\ lw.sauce.breaks \subseteq 0..(Len(words) - 1)
            /\ Feasible(ls, max)
            /\ \A B \in SUBSET (1..(Len(words) - 1)) :
                  Feasible(Partition(words, B, 1, <<>>), max) =>
                    TotalPenalty(ls, max) <= TotalPenalty(Partition(words, B, 1, <<>>), max)
      /\ (Done /\ words # <<>>) =>
            ls = [k \in 1..Len(SubLines(out)) |-> LineWords(k)]

\* a line of three output lines for which some other partition without an
\* overlong line costs more
C24_Witness ==
    /\ Done /\ lw.sauce.kind = "Salsa"
    /\ Len(lw.line.words) = MaxWords + 2
    /\ BreakableWidth(lw.line, top) = 4
    /\ Len(SubLines(out)) = 3
    /\ Len(LineWords(1)) = 2 /\ Len(LineWords(2)) = 1
    /\ JoinedWidth(LineWords(1)) = 3
    /\ \E B \in SUBSET (1..(Len(lw.line.words) - 1)) :
          LET alt == Partition(lw.line.words, B, 1, <<>>) IN
          /\ Feasible(alt, 4)
          /\ TotalPenalty(alt, 4) > TotalPenalty(Partition(lw.line.words, lw.sauce.breaks, 1, <<>>), 4)

----------------------------------------------------------------------------
(* Claims on the merger: one step is one call of Merge::next *)

\* the call returns a Line
Took == merger'.pos > merger.pos

\* the first Line the call takes, the positions of the Lines it folds into
\* it, the Line it returns and the Line it leaves for the next call
FirstTaken == merger.lines[merger.pos + 1]
Folded == (merger.pos + 2)..merger'.pos
LineReturned == merged'[Len(merged')]
HasLeft == merger'.pos < Len(merger.lines)
LineLeft == merger.lines[merger'.pos + 1]

\* C25: a Line that has a bullet is never folded into the Line before it.
C25_NewBulletNewLine ==
    [][Took => \A i \in Folded : merger.lines[i].bullet = NoWord]_vars

\* a second line that differs from a mergeable one by its bullet only
C25_Witness ==
    /\ MergeDone
    /\ Len(merger.lines) = 2
    /\ merger.lines[2].bullet # NoWord
    /\ merger.lines[1].comment # NoWord
    /\ ShouldMerge(merger.lines[1], [merger.lines[2] EXCEPT !.bullet = NoWord])
    /\ MergedSoFar = merger.lines

\* C26: a call that takes a Line without words takes that Line alone and
\* returns it with its six slots as they are.
C26_EmptyLineBoundary ==
    [][(Took /\ \E i \in (merger.pos + 1)..merger'.pos : merger.lines[i].words = <<>>) =>
          /\ merger'.pos = merger.pos + 1
          /\ LineReturned = FirstTaken]_vars

\* two lines that would merge, kept apart by a prefix-only line
C26_Witness ==
    /\ MergeDone
    /\ Len(merger.lines) = 3
    /\ merger.lines[2].words = <<>> /\ merger.lines[2].comment # NoWord
    /\ ShouldMerge(merger.lines[1], merger.lines[3])
    /\ MergedSoFar = merger.lines

Plain(l) == l.words # <<>> /\ l.bullet = NoWord

SameSlots(u, l) == u.indent = l.indent /\ u.comment = l.comment /\ u.padding = l.padding

\* C27: when the upper Line of the merger and the Line after it both have
\* words and no bullet, the lower is folded into the upper exactly when
\* their indent, comment and padding are equal; the upper Line is the one
\* the call accumulates, with the slots of the first Line taken.
C27_PlainLinesMerge ==
    [][(Took /\ Plain(FirstTaken)) =>
         /\ \A i \in Folded :
               Plain(merger.lines[i]) /\ SameSlots(FirstTaken, merger.lines[i])
         /\ (HasLeft /\ Plain(LineLeft)) => ~SameSlots(FirstTaken, LineLeft)]_vars

\* two equal prefixes merged, a third line with another indent left alone
C27_Witness ==
    /\ MergeDone
    /\ Len(merger.lines) = 3
    /\ \A i \in 1..3 : Plain(merger.lines[i])
    /\ SameSlots(merger.lines[1], merger.lines[2])
    /\ merger.lines[3].indent # merger.lines[2].indent
    /\ merger.lines[3].padding = merger.lines[2].padding
    /\ Len(MergedSoFar) = 2 /\ Len(MergedSoFar[1].words) = 2

\* the lower line sits under the first word of the upper line's bullet item
Aligned(upper, lower) ==
    LET u == IF upper.indent = lower.indent THEN upper.padding ELSE upper.indent
        l == IF upper.indent = lower.indent THEN lower.padding ELSE lower.indent
    IN /\ u.kind = "Space" /\ l.kind = "Space"
       /\ u.n + WidthCjk(upper.bullet) + 1 = l.n

\* C28: every Line folded into a Line with a bullet is aligned under the
\* bullet's first word: the compared slots are spaces and the lower count
\* is the upper count plus the bullet's width plus one.
C28_BulletAlignment ==
    [][(Took /\ FirstTaken.bullet # NoWord) =>
          \A i \in Folded : Aligned(FirstTaken, merger.lines[i])]_vars

\* a continuation aligned with spaces is folded, one padded with as many
\* tabs is not
C28_Witness ==
    /\ MergeDone
    /\ Len(merger.lines) = 3
    /\ merger.lines[1].bullet # NoWord
    /\ Aligned(merger.lines[1], merger.lines[2])
    /\ merger.lines[3] = [merger.lines[2] EXCEPT !.padding = Tab(2), !.words = <<MergeWord(3)>>]
    /\ Len(MergedSoFar) = 2 /\ Len(MergedSoFar[1].words) = 2

\* the words of Lines, one Line after the other
RECURSIVE WordsOf(_)
WordsOf(ls) == IF ls = <<>> THEN <<>> ELSE Head(ls).words \o WordsOf(Tail(ls))

\* C29: the words of the Lines returned are the words of the Lines taken,
\* in the same order; and each Line returned has the indent, comment,
\* padding and bullet of the first Line taken for it and the words of the
\* adjacent Lines taken for it.
C29_MergeConserves ==
    /\ [](WordsOf(MergedSoFar) = WordsOf(SubSeq(merger.lines, 1, merger.pos)))
    /\ [][Took =>
            /\ LineReturned.indent = FirstTaken.indent /\ LineReturned.comment = FirstTaken.comment
            /\ LineReturned.padding = FirstTaken.padding /\ LineReturned.bullet = FirstTaken.bullet
            /\ LineReturned.words =
                  WordsOf(SubSeq(merger.lines, merger.pos + 1, merger'.pos))]_vars

C29_Witness ==
    /\ MergeDone
    /\ Len(merger.lines) = 3
    /\ Len(MergedSoFar) = 2
    /\ MergedSoFar[1].words = <<MergeWord(1), MergeWord(2)>>
    /\ MergedSoFar[1].bullet # NoWord /\ MergedSoFar[1].comment # NoWord
    /\ MergedSoFar[2].words = <<MergeWord(3)>>
    /\ MergedSoFar[2].padding # MergedSoFar[1].padding

\* upper after the Lines from..to of m are merged
RECURSIVE Accumulated(_, _, _)
Accumulated(m, from, to) ==
    IF to <= from THEN m.lines[from]
    ELSE MergeLines(Accumulated(m, from, to - 1), m.lines[to])

\* C30: every Line folded satisfies should_merge with the accumulated upper
\* Line, the Line left for the next call does not, and the Line returned is
\* the accumulated one.
C30_ChainMerging ==
    [][Took =>
         /\ \A i \in Folded :
               ShouldMerge(Accumulated(merger, merger.pos + 1, i - 1), merger.lines[i])
         /\ HasLeft => ~ShouldMerge(Accumulated(merger, merger.pos + 1, merger'.pos), LineLeft)
         /\ LineReturned = Accumulated(merger, merger.pos + 1, merger'.pos)]_vars

\* a bullet item of three lines in one Line, of which the third would not
\* merge into the second
C30_Witness ==
    /\ MergeDone
    /\ Len(merger.lines) = 3
    /\ merger.lines[1].bullet # NoWord
    /\ ~ShouldMerge(merger.lines[2], merger.lines[3])
    /\ Len(MergedSoFar) = 1
    /\ MergedSoFar[1].words = <<MergeWord(1), MergeWord(2), MergeWord(3)>>

----------------------------------------------------------------------------
(* More claims on the parser *)

\* the tokens the parser has consumed
Consumed == SubSeq(parser.tokens, 1, parser.pos)

NewlineCount(ts) == Cardinality({i \in 1..Len(ts) : ts[i].k = "Newline"})

EndsOpen(ts) == ts # <<>> /\ ts[Len(ts)].k # "Newline"

\* C31: the Lines returned are as many as the Newline tokens consumed, plus
\* one if a token follows the last of them; every Line but the last has the
\* newline flag, and the last has it exactly when a Newline token ends the
\* tokens consumed. With no token there is no Line.
C31_OneLinePerPhysicalLine ==
    /\ Len(ParsedLines) = NewlineCount(Consumed) + (IF EndsOpen(Consumed) THEN 1 ELSE 0)
    /\ \A i \in 1..(Len(ParsedLines) - 1) : ParsedLines[i].newline
    /\ ParsedLines # <<>> => (ParsedLines[Len(ParsedLines)].newline <=> ~EndsOpen(Consumed))
    /\ ParseDone => parser.pos = Len(parser.tokens)

\* words, a newline, a blank line and words without a newline
C31_Witness ==
    /\ ParseDone
    /\ Len(parser.tokens) = MaxInput
    /\ NewlineCount(parser.tokens) = 2
    /\ parser.tokens[2].k = "Newline" /\ parser.tokens[3].k = "Newline"
    /\ Len(ParsedLines) = 3
    /\ ParsedLines[2].words = <<>> /\ ~ParsedLines[3].newline

\* the whitespace slot that the longest run of one whitespace token starting
\* at from amounts to
RunSlot(ts, from) ==
    LET n == RunLength(ts, from) IN
    IF n = 0 THEN Space(0)
    ELSE IF ts[from] = TSpace THEN Space(n) ELSE Tab(n)

SingleKindSlots(ts, line) ==
    LET i == RunLength(ts, 1)
        c == IF line.comment # NoWord THEN 1 ELSE 0
    IN /\ line.indent = RunSlot(ts, 1)
       /\ line.padding = RunSlot(ts, i + c + 1)
       /\ (i >= 1 /\ i < Len(ts) /\ IsWhitespaceToken(ts[i + 1])) =>
             /\ line.comment = NoWord
             /\ line.padding.n >= 1
             /\ line.padding.kind # line.indent.kind

\* C32: for every Line returned, indent is the longest run of one whitespace
\* token at the start of the physical line (Space(0) without one), and
\* padding is the longest run of one whitespace token right after the indent
\* and the comment; a run of the other kind right after the indent is the
\* padding.
C32_SingleKindSlots ==
    LET pl == PhysicalLines(Consumed, <<>>) IN
    \A k \in 1..Len(ParsedLines) : k <= Len(pl) /\ SingleKindSlots(pl[k], ParsedLines[k])

\* two spaces, then a tab, then a word
C32_Witness ==
    /\ ParseDone
    /\ Len(parser.tokens) = MaxInput
    /\ SubSeq(parser.tokens, 1, 3) = <<TSpace, TSpace, TTab>>
    /\ Len(ParsedLines) = 1
    /\ ParsedLines[1].indent = Space(2)
    /\ ParsedLines[1].padding = Tab(1)
    /\ Len(ParsedLines[1].words) = 1

----------------------------------------------------------------------------
(* More claims on the lexer *)

\* the tokens returned, without the None that ends them
LexedTokens == IF LexDone THEN SubSeq(toks, 1, Len(toks) - 1) ELSE toks

\* the graphemes that end a word
IsSeparator(g) == g \in {"sp", "tab", "lf", "crlf"}

\* the place in the input of the last grapheme of token k
TokenEnd(ts, k) == Len(TokensText(SubSeq(ts, 1, k)))

TokenStart(ts, k) == TokenEnd(ts, k - 1) + 1

CountOf(S) == Cardinality(S)

\* every CRLF grapheme is one Newline token, and every carriage return is in
\* a Word token together with the graphemes around it that end no word
CarriageReturns(ts, input) ==
    /\ CountOf({k \in 1..Len(ts) : ts[k] = TNewline("CRLF")})
          = CountOf({i \in 1..Len(input) : input[i] = "crlf"})
    /\ CountOf({k \in 1..Len(ts) : ts[k].k = "Newline"})
          = CountOf({i \in 1..Len(input) : input[i] \in {"lf", "crlf"}})
    /\ \A i \in 1..Len(input) : input[i] = "cr" =>
          \E k \in 1..Len(ts) :
             /\ ts[k].k = "Word"
             /\ ts[k].w = SubSeq(input, TokenStart(ts, k), TokenEnd(ts, k))
             /\ TokenStart(ts, k) <= i /\ i <= TokenEnd(ts, k)
             /\ (i > 1 /\ ~IsSeparator(input[i - 1])) => TokenStart(ts, k) < i
             /\ (i < Len(input) /\ ~IsSeparator(input[i + 1])) => i < TokenEnd(ts, k)

\* C33: in the tokens of the iterator and in those of lex(), a CRLF is one
\* Newline token and no other token, and a carriage return ends no word: it
\* is in one Word token with the word graphemes before and after it.
C33_CarriageReturn ==
    /\ LexDone => CarriageReturns(LexedTokens, lexer.input)
    /\ CarriageReturns(Lex(lexer.input), lexer.input)

\* a carriage return inside a word, and a CRLF after the word
C33_Witness ==
    /\ LexDone
    /\ lexer.input = <<"a", "cr", "b", "crlf">>
    /\ LexedTokens = <<TWord(<<"a", "cr", "b">>), TNewline("CRLF")>>

WordTokens(ts, input, pending) ==
    /\ \A k \in 1..Len(ts) : ts[k].k = "Word" =>
          /\ ts[k].w # <<>>
          /\ \A n \in 1..Len(ts[k].w) : ~IsSeparator(ts[k].w[n])
          /\ k < Len(ts) => ts[k + 1].k # "Word"
          /\ TokenEnd(ts, k) < Len(input) =>
                /\ IsSeparator(input[TokenEnd(ts, k) + 1])
                /\ TokenText(IF k < Len(ts) THEN ts[k + 1] ELSE pending)
                      = <<input[TokenEnd(ts, k) + 1]>>
    /\ pending # NoToken => ts # <<>> /\ ts[Len(ts)].k = "Word"

\* C34: in the tokens of the iterator, at every call, and in those of lex(),
\* a Word token is not empty, holds no space, tab, LF or CRLF, and is not
\* followed by a Word token; the separator that ended it is the token right
\* after it, or is held back to be the next token returned.
C34_WordTokens ==
    /\ WordTokens(LexedTokens, lexer.input, lexer.pending)
    /\ WordTokens(Lex(lexer.input), lexer.input, NoToken)

\* a word has been returned and the separator that ended it is held back
C34_Witness ==
    /\ lexer.pending = TTab
    /\ toks = <<TWord(<<"a">>), TSpace, TWord(<<"b">>)>>
    /\ lexer.input = <<"a", "sp", "b", "tab">>

----------------------------------------------------------------------------
(* More claims on the fragments of a LineWrap *)

\* fragments i and j are words with no word and no newline between them
ConsecutiveOnLine(fs, i, j) ==
    /\ i < j
    /\ fs[i].arm = "word" /\ fs[j].arm = "word"
    /\ \A m \in (i + 1)..(j - 1) : fs[m].arm # "word" /\ ~IsNewlineFrag(fs[m])

\* C35: between two words yielded one after the other with no newline
\* between them, exactly one fragment is yielded, and it is a space.
C35_OneSpaceBetweenWords ==
    \A i, j \in 1..Len(out) :
        ConsecutiveOnLine(out, i, j) => j = i + 2 /\ out[i + 1] = [s |-> SP, arm |-> "space"]

\* the output has two lines, one of them with three words
C35_Witness ==
    /\ finished
    /\ Len(SubLines(out)) = 2
    /\ \E k \in 1..2 : Len(LineWords(k)) = 3
    /\ \E i \in 1..(Len(out) - 4) : ConsecutiveOnLine(out, i, i + 2) /\ ConsecutiveOnLine(out, i + 2, i + 4)

\* what should_break returns for the indexes idx, idx + 1, ... asked in order
RECURSIVE Answers(_, _, _)
Answers(s, words, idx) ==
    IF idx >= Len(words) THEN <<>>
    ELSE LET r == ShouldBreak(s, words, idx) IN
         <<r.brk>> \o Answers(r.sauce, words, idx + 1)

\* the answers of the strategy of this LineWrap, from prepare on
StrategyAnswers ==
    Answers(Prepare(lw.sauce.kind, lw.line.words, BreakableWidth(lw.line, top)),
            lw.line.words, 0)

\* the words yielded before fragment m
WordsBefore(fs, m) == Len(FragsOf(SubSeq(fs, 1, m - 1), "word"))

\* the fragments from m + 1 up to the next word are those of the prefix
PrefixUntilWord(fs, m) ==
    \A j \in (m + 1)..Len(fs) :
        (\A i \in (m + 1)..j : fs[i].arm # "word") =>
            fs[j].arm \in {"indent", "comment", "padding", "bullet", "bulletspace"}

\* C36: a newline fragment is either the last fragment of a line that has a
\* newline, yielded on reaching Final, or it comes after w >= 1 yielded
\* words, should_break has returned true for index w (looked up when the
\* newline is the fragment just yielded), and only fragments of the prefix
\* come between it and word w; a finished line that has a newline ends with
\* it; and should_break returns true for index 0 (looked up before the first
\* fragment) with no newline yielded for it.
C36_NewlineFragments ==
    /\ \A m \in 1..Len(out) : IsNewlineFrag(out[m]) =>
          \/ /\ out[m].arm = "final"
             /\ m = Len(out) /\ Done /\ lw.line.newline
          \/ /\ out[m].arm = "break"
             /\ WordsBefore(out, m) >= 1
             /\ WordsBefore(out, m) < Len(lw.line.words)
             /\ m = Len(out) => StrategyAnswers[WordsBefore(out, m) + 1]
             /\ PrefixUntilWord(out, m)
             /\ finished => \E j \in (m + 1)..Len(out) : out[j].arm = "word"
    /\ (Done /\ lw.line.newline) => out # <<>> /\ out[Len(out)].arm = "final"
    /\ (out = <<>> /\ lw.line.words # <<>>) => StrategyAnswers[1]

\* a line of three words without a newline, written on two lines
C36_Witness ==
    /\ finished
    /\ ~lw.line.newline
    /\ Len(lw.line.words) = 3
    /\ Len(FragsOf(out, "break")) = 1
    /\ Len(FragsOf(out, "space")) = 1
    /\ StrategyAnswers[1]
    /\ ~IsNewlineFrag(out[1]) /\ ~IsNewlineFrag(out[Len(out)])

\* the fragments of a line without words, each with the arm that yields it
WordlessFrags(line, toppings) ==
    [i \in 1..line.indent.n |-> [s |-> WhitespaceAsStr(line.indent), arm |-> "indent"]]
      \o (IF line.comment # NoWord THEN <<[s |-> line.comment, arm |-> "comment"]>> ELSE <<>>)
      \o [i \in 1..line.padding.n |-> [s |-> WhitespaceAsStr(line.padding), arm |-> "padding"]]
      \o (IF line.bullet # NoWord THEN <<[s |-> line.bullet, arm |-> "bullet"]>> ELSE <<>>)
      \o (IF line.newline
            THEN <<[s |-> NewlineAsStr(toppings.newline), arm |-> "final"]>> ELSE <<>>)

\* C37: a LineWrap of a line without words starts in Indent; what it has
\* yielded is at every call the beginning of: the indent tokens, the comment,
\* the padding tokens, the bullet, the newline if the line has one; and when
\* it is done it has yielded all of that and nothing else.
C37_WordlessLine ==
    lw.line.words = <<>> =>
        /\ LineWrapNew(lw.line, top, lw.sauce.kind).state = "Indent"
        /\ IsPrefixOf(out, WordlessFrags(lw.line, top))
        /\ Done => out = WordlessFrags(lw.line, top)

\* a line of a tab, a comment, a space and a bullet, with a CRLF newline
C37_Witness ==
    /\ finished
    /\ lw.line = Line(Tab(1), <<"#">>, Space(1), <<"-">>, <<>>, TRUE)
    /\ Contents(out) = <<TAB, <<"#">>, SP, <<"-">>, <<"crlf">>>>

\* one iteration of LineWrap::next asks should_break for index word_idx and
\* moves word_idx on by one
AsksShouldBreak ==
    /\ lw.word_idx < Len(lw.line.words)
    /\ lw'.word_idx = lw.word_idx + 1
    /\ lw'.sauce = ShouldBreak(lw.sauce, lw.line.words, lw.word_idx).sauce

AsksNothing == lw'.word_idx = lw.word_idx /\ lw'.sauce = lw.sauce

StrategyProtocol ==
    /\ lw.word_idx = 0 =>
          lw.sauce = Prepare(lw.sauce.kind, lw.line.words, BreakableWidth(lw.line, top))
    /\ lw'.line = lw.line /\ top' = top
    /\ AsksShouldBreak \/ AsksNothing
    /\ finished' => lw'.word_idx = Len(lw.line.words)

\* C38: before the first question the strategy is the one prepare makes of
\* the words of the line and its breakable width; every iteration either
\* leaves the strategy and word_idx alone or asks should_break for index
\* word_idx, on the strategy as the questions before left it, and adds one
\* to word_idx; and the LineWrap is finished with word_idx at the number of
\* words. So the indexes asked are 0, 1, ..., n - 1, each once, in order.
C38_StrategyProtocol == [][StrategyProtocol]_vars

\* first-fit has been asked about five words and has broken twice
C38_Witness ==
    /\ finished
    /\ lw.sauce.kind = "Guacamole"
    /\ Len(lw.line.words) = MaxWords + 2
    /\ lw.word_idx = MaxWords + 2
    /\ lw.sauce.width > 0
    /\ Len(FragsOf(out, "break")) = 2

----------------------------------------------------------------------------
(* Claims on what the stages hold *)

\* the number of Lines consumed after each call of Merge::next, from m on
RECURSIVE MergeBounds(_)
MergeBounds(m) ==
    IF m.pos >= Len(m.lines) THEN <<>>
    ELSE LET r == MergeNext(m) IN <<r.merge.pos>> \o MergeBounds(r.merge)

\* the logical paragraph of physical line i: the call of Merge::next that
\* consumes it
ParagraphOf(i) ==
    LET b == MergeBounds(MergeNew(merger.lines)) IN
    CHOOSE j \in 1..Len(b) : b[j] >= i /\ (j > 1 => b[j - 1] < i)

\* the physical lines whose fragments have all been yielded
FullyEmitted ==
    LET b == MergeBounds(MergeNew(merger.lines))
        n == IF lw.state = "None" THEN Len(merged) ELSE Len(merged) - 1
    IN IF n = 0 THEN 0 ELSE b[n]

\* the Lines that have left the parser and are not fully emitted
HeldLines == (FullyEmitted + 1)..merger.pulled

HeldParagraphs == {ParagraphOf(i) : i \in HeldLines}

\* C39 as stated: the Lines pulled from the parser and not yet fully
\* emitted belong to at most one logical paragraph.
C39_OneParagraphBuffered_Original == Cardinality(HeldParagraphs) <= 1

\* the merger holds at most one Line, of the paragraph after the last one
\* returned; the driver holds at most the paragraph it is writing
HeldBound ==
    /\ merger.pulled <= merger.pos + 1
    /\ Cardinality(HeldParagraphs) <= 2
    /\ lw.state = "None" => Cardinality(HeldParagraphs) <= 1
    /\ \A i \in HeldLines : i > merger.pos => ParagraphOf(i) = Len(merged) + 1

PullsWhenExhausted == merger' # merger => lw.state = "None" /\ lw'.state # "None"

\* C39 amended: the Lines pulled from the parser and not yet fully emitted
\* are those of the paragraph the driver is writing and at most one more,
\* the Line the merger has looked at and not merged, which is the first of
\* the next paragraph; and the driver calls the merger only when it has no
\* current LineWrap.
C39_OneParagraphBuffered ==
    /\ []HeldBound
    /\ [][PullsWhenExhausted]_vars

\* the second paragraph is being written while the merger holds the first
\* Line of the third
C39_Witness ==
    /\ lw.state \notin {"None", "Final"}
    /\ Len(merged) = 2
    /\ out # <<>>
    /\ merger.pulled = merger.pos + 1
    /\ Cardinality(HeldParagraphs) = 2

----------------------------------------------------------------------------
(* Transformer: transform.rs, a rewrapper of a token stream.  Its Newline   *)
(* token has no kind; pos tokens of source are consumed.                   *)

\* Options::default (formatter.rs)
DefaultOptions == [line_width |-> 80, tab_width |-> 4]

\* transform
TransformNew(source, options) ==
    [source |-> source, pos |-> 0, options |-> options,
     line_width |-> 0, newline_count |-> 0, pending_token |-> NoToken]

TransformReturned(t, tok) == [transformer |-> t, tok |-> tok]

\* the while loop of Transformer::next and what follows it
RECURSIVE TransformerScan(_)
TransformerScan(t) ==
    IF t.pos < Len(t.source)
    THEN LET token == t.source[t.pos + 1]
             t1 == [t EXCEPT !.pos = t.pos + 1]
         IN CASE token.k \in {"Space", "Tab"} ->
                   TransformerScan([t1 EXCEPT !.newline_count = 0])
              [] token.k = "Newline" ->
                   LET t2 == [t1 EXCEPT !.newline_count = t.newline_count + 1] IN
                   IF t2.newline_count = 1 /\ t2.line_width # 0
                   THEN TransformerScan(t2)
                   ELSE TransformReturned(
                          [t2 EXCEPT !.pending_token =
                                        IF t2.newline_count = 2 THEN TNewline("LF") ELSE NoToken,
                                     !.line_width = 0],
                          TNewline("LF"))
              [] OTHER ->
                   LET width == WidthCjk(token.w)
                       t2 == [t1 EXCEPT !.newline_count = 0]
                       next_width == t2.line_width + 1 + width
                   IN IF t2.line_width = 0
                      THEN TransformReturned([t2 EXCEPT !.line_width = width], token)
                      ELSE IF next_width <= t.options.line_width
                      THEN TransformReturned([t2 EXCEPT !.pending_token = token,
                                                        !.line_width = next_width], TSpace)
                      ELSE TransformReturned([t2 EXCEPT !.pending_token = token,
                                                        !.line_width = width], TNewline("LF"))
    ELSE TransformReturned([t EXCEPT !.newline_count = 0],
                           IF t.newline_count = 1 /\ t.line_width # 0
                           THEN TNewline("LF") ELSE NoToken)

\* Transformer::next
TransformerNext(t) ==
    IF t.pending_token # NoToken
    THEN TransformReturned([t EXCEPT !.pending_token = NoToken], t.pending_token)
    ELSE TransformerScan(t)

----------------------------------------------------------------------------
(* The transformer specification: one token sequence and one line width;   *)
(* every step is one call of Transformer::next.                            *)

TransformTokens == {TSpace, TTab, TNewline("LF"), TWord(<<"a">>), TWord(<<"b", "W">>)}

TransformSources == SeqsUpTo(TransformTokens, MaxInput)

TransformOptions == {[DefaultOptions EXCEPT !.line_width = w] : w \in {3, 80}}

TransformInit ==
    /\ \E source \in TransformSources, options \in TransformOptions :
          transformer = TransformNew(source, options)
    /\ transformed = <<>>
    /\ LexIdle /\ ParseIdle /\ WrapIdle /\ PipeIdle /\ MergeIdle
    /\ CliIdle /\ ArithIdle /\ SetterIdle

TransformFrame ==
    UNCHANGED <<cli, arith, setter, wrapVars, lexVars, parseVars, pipe, mergeVars>>

TransformReturn(r) ==
    /\ transformer' = r.transformer
    /\ transformed' = Append(transformed, r.tok)
    /\ TransformFrame

TransformDone == transformed # <<>> /\ transformed[Len(transformed)] = NoToken

\* next() hands out the token it held back
TransformNextPending ==
    /\ ~TransformDone /\ transformer.pending_token # NoToken
    /\ TransformReturn(TransformerNext(transformer))

\* next() reads on and returns a token
TransformNextScan ==
    /\ ~TransformDone /\ transformer.pending_token = NoToken
    /\ TransformerNext(transformer).tok # NoToken
    /\ TransformReturn(TransformerNext(transformer))

\* next() finds the source exhausted and returns None
TransformNextNone ==
    /\ ~TransformDone /\ transformer.pending_token = NoToken
    /\ TransformerNext(transformer).tok = NoToken
    /\ TransformReturn(TransformerNext(transformer))

TransformNextStep ==
    \/ TransformNextPending
    \/ TransformNextScan
    \/ TransformNextNone

SpecTransform == TransformInit /\ [][TransformNextStep]_vars

----------------------------------------------------------------------------
(* Claims on the transformer *)

\* the tokens returned, without the None that ends them
TransformedTokens ==
    IF TransformDone THEN SubSeq(transformed, 1, Len(transformed) - 1) ELSE transformed

WordsIn(ts) == SelectSeq(ts, LAMBDA t : t.k = "Word")

\* the place in ts of its g-th Word token; 0 before the first and
\* Len(ts) + 1 after the last
WordPlace(ts, g) ==
    IF g = 0 THEN 0
    ELSE IF g > Len(WordsIn(ts)) THEN Len(ts) + 1
    ELSE CHOOSE i \in 1..Len(ts) :
            ts[i].k = "Word" /\ Len(WordsIn(SubSeq(ts, 1, i))) = g

\* the tokens between the g-th Word token and the next one
Gap(ts, g) == SubSeq(ts, WordPlace(ts, g) + 1, WordPlace(ts, g + 1) - 1)

\* there are Newline tokens, and each of them is next to another one
LongRunsOnly(ts) ==
    /\ \E i \in 1..Len(ts) : ts[i].k = "Newline"
    /\ \A i \in 1..Len(ts) : ts[i].k = "Newline" =>
          \/ i > 1 /\ ts[i - 1].k = "Newline"
          \/ i < Len(ts) /\ ts[i + 1].k = "Newline"

\* C40: when the transformer is done, the words returned are those of the
\* source; where one Newline and nothing else is between two words of the
\* source, one Space or one Newline is between them in the output; and
\* where the Newline tokens between two words, before the first or after
\* the last come in runs of two or more, exactly as many Newline tokens and
\* nothing else are at that place in the output.
C40_NewlineRuns ==
    TransformDone =>
      LET src == transformer.source
          res == TransformedTokens
          n == Len(WordsIn(src))
      IN /\ WordsIn(res) = WordsIn(src)
         /\ \A g \in 1..(n - 1) :
               Gap(src, g) = <<TNewline("LF")>> =>
                   Gap(res, g) \in {<<TSpace>>, <<TNewline("LF")>>}
         /\ \A g \in 0..n :
               LongRunsOnly(Gap(src, g)) =>
                   Gap(res, g) = SelectSeq(Gap(src, g), LAMBDA t : t.k = "Newline")

====
